---- MODULE Spec2Model ----
(***************************************************************************)
(* Clinic Signal: the Hue bridge service (src/unnamed/part_007) and the    *)
(* network it talks to.                                                    *)
(*                                                                         *)
(* Strings are sequences of tokens (a token is a run of characters the     *)
(* code never looks inside): "https://10.0.0.5/" is                        *)
(* <<"https://", "10.0.0.5", "/">>.  JavaScript null is the one-token      *)
(* sequence Null, which `${...}` prints as "null".                         *)
(*                                                                         *)
(* testConnection is an async function: each call runs in a handler slot   *)
(* and is cut at its awaits (the probe's fetch, the v2 fetch, the v1       *)
(* fetch, res.json()).  configure is synchronous and may run between any   *)
(* two of those steps.                                                     *)
(***************************************************************************)
EXTENDS Integers, Sequences, FiniteSets, TLC

\* ------------------------------------------------------------------------
\* Bounds and constants
\* ------------------------------------------------------------------------

\* Milliseconds after which the probe's AbortController fires.
ProbeTimeoutMs == 5000

\* Granularity of the clock of the model, in milliseconds.
TickMs == 2500

\* Handler slots: at most this many testConnection calls overlap.
Calls == {"h1", "h2"}

\* JavaScript null, for the string-valued fields.
Null == <<"#null">>

\* The unset _apiVersion.
NoVersion == "null"

\* What the user can type in the two fields of the settings page.
RawHosts ==
  { <<"localhost", ":3100">>,
    <<" ", "http://", "localhost", ":3100", "/", "/", " ">>,
    <<"10.0.0.5">>,
    <<"https://", "10.0.0.5", "/">> }

RawKeys == { <<"x">>, <<" ", "x", " ">> }

\* Status codes a bridge answers an API request with, and the ones it
\* answers the bare GET /api of the probe with.
Statuses == {200, 401, 403, 404}

ProbeStatuses == {200, 404}

\* What res.json() of a bridge's answer yields: a keyed object, an array
\* whose first element carries an error, an array that does not;
\* "unreadable" is a body that is no JSON (res.json() throws).  The
\* simulation server also sends "data", {data: [...]}.
Bodies == {"obj", "errArr", "arr", "unreadable"}

\* ------------------------------------------------------------------------
\* String helpers used by configure
\* ------------------------------------------------------------------------

IsSpace(t) == t = " "

RECURSIVE TrimStart(_)
TrimStart(s) ==
  IF s # <<>> /\ IsSpace(Head(s)) THEN TrimStart(Tail(s)) ELSE s

RECURSIVE TrimEnd(_)
TrimEnd(s) ==
  IF s # <<>> /\ IsSpace(s[Len(s)]) THEN TrimEnd(SubSeq(s, 1, Len(s) - 1)) ELSE s

\* String.prototype.trim
Trim(s) == TrimEnd(TrimStart(s))

\* replace(/^https?:\/\//, "")
StripScheme(s) ==
  IF s # <<>> /\ Head(s) \in {"http://", "https://"} THEN Tail(s) ELSE s

\* replace(/\/+$/, "")
RECURSIVE StripTrailingSlashes(_)
StripTrailingSlashes(s) ==
  IF s # <<>> /\ s[Len(s)] = "/"
    THEN StripTrailingSlashes(SubSeq(s, 1, Len(s) - 1))
    ELSE s

CleanIp(ip) == StripTrailingSlashes(StripScheme(Trim(ip)))

\* `${x}` of a string or null
Str(x) == IF x = Null THEN <<"null">> ELSE x

\* this._bridgeIp?.startsWith("localhost")
StartsWithLocalhost(ip) == ip # Null /\ ip # <<>> /\ Head(ip) = "localhost"

\* ------------------------------------------------------------------------
\* URL and header builders of the service
\* ------------------------------------------------------------------------

BridgeOrigin(ip) ==
  <<(IF StartsWithLocalhost(ip) THEN "http" ELSE "https"), "://">> \o Str(ip)

BaseUrlV2(ip) == BridgeOrigin(ip) \o <<"/clip/v2">>

BaseUrlV1(ip, key) == BridgeOrigin(ip) \o <<"/api/">> \o Str(key)

\* The value of the hue-application-key header; Null when the header is absent.
HeadersV2(key) == [appKey |-> Str(key)]

HeadersV1 == [appKey |-> Null]

NoHeaders == [appKey |-> Null]

\* The accept URL built from _bridgeOrigin(), without the /api path.
GetCertAcceptUrl_origin(ip) == BridgeOrigin(ip)

GetCertAcceptUrl(ip) == <<"https", "://">> \o Str(ip) \o <<"/api">>

\* ------------------------------------------------------------------------
\* The network: what listens behind a URL, and how a fetch settles
\* ------------------------------------------------------------------------

HasPrefix(url, p) == Len(url) >= Len(p) /\ SubSeq(url, 1, Len(p)) = p

\* The simulation server is plain HTTP on localhost:3100.
SimOrigin == <<"http", "://", "localhost", ":3100">>

\* The address of the real bridge on the clinic's network.
RealOrigin == <<"https", "://", "10.0.0.5">>

\* What may be behind a URL when a request to it is issued:
\*   sim        the simulation server (fake-bridge.js) is running
\*   bridge     a bridge whose certificate the browser trusts
\*   untrusted  a bridge whose self-signed certificate is not accepted
\*   none       nothing listens: the connection is refused, or the attempt
\*              is never answered
Listeners(url) ==
  IF HasPrefix(url, SimOrigin) THEN {"sim", "none"}
  ELSE IF HasPrefix(url, RealOrigin) THEN {"bridge", "untrusted", "none"}
  ELSE {"none"}

\* The tokens a path begins with.
PathHeads == {"/api", "/api/", "/clip/v2"}

\* The scheme and host of a URL, and its path.
RECURSIVE OriginOf(_)
OriginOf(url) ==
  IF url = <<>> \/ Head(url) \in PathHeads THEN <<>>
  ELSE <<Head(url)>> \o OriginOf(Tail(url))

PathOf(url) == SubSeq(url, Len(OriginOf(url)) + 1, Len(url))

\* In-memory state of the simulation server.
SimLightIds == {"light-1a", "light-2a", "light-2b", "light-3a", "light-4a", "light-4b"}

SimGroupIds == {"group-1", "group-2", "group-3", "group-4"}

\* The simulation server without its route for GET /clip/v2/resource/light.
FakeBridgeStatus_noLights(method, path) ==
  IF method = "GET" /\ path = <<"/clip/v2", "/resource/room">> THEN 200 ELSE 404

\* The routes of the simulation server; a path no route matches gets
\* Express's own 404.
FakeBridgeStatus(method, path) ==
  IF method = "GET" /\ path = <<"/clip/v2", "/resource/light">> THEN 200
  ELSE IF method = "GET" /\ path = <<"/clip/v2", "/resource/room">> THEN 200
  ELSE IF method = "PUT" /\ Len(path) = 3
          /\ SubSeq(path, 1, 2) = <<"/clip/v2", "/resource/light/">>
    THEN (IF path[3] \in SimLightIds THEN 200 ELSE 404)
  ELSE IF method = "PUT" /\ Len(path) = 3
          /\ SubSeq(path, 1, 2) = <<"/clip/v2", "/resource/grouped_light/">>
    THEN (IF path[3] \in SimGroupIds THEN 200 ELSE 404)
  ELSE IF method = "GET" /\ path = <<"/clip/v2", "/resource/bridge">> THEN 200
  ELSE 404

\* The body the simulation server sends: {data: ...} on success,
\* {errors: ...} from its own 404s, Express's HTML page otherwise.
FakeBridgeBody(method, path) ==
  IF FakeBridgeStatus(method, path) = 200 THEN "data"
  ELSE IF path # <<>> /\ Head(path) = "/clip/v2" THEN "obj"
  ELSE "unreadable"

Response(s) == [kind |-> "response", status |-> s]

Throw(n) == [kind |-> "throw", name |-> n]

Pending == [kind |-> "pending"]

NoReq == [stage |-> "none"]

\* fetch(url, {method, headers, signal}) towards a listener of kind cond.
Fetch(stage, method, url, headers, signal, cond) ==
  [stage |-> stage, method |-> method, url |-> url, headers |-> headers,
   signal |-> signal, elapsed |-> 0, cond |-> cond]

\* The ways the in-flight fetch r can settle now.  A fetch that carries an
\* abort signal is rejected with AbortError once its timer has fired.  A
\* handshake the browser does not trust and a refused connection make fetch
\* reject with a TypeError; a connection attempt nobody answers stays
\* pending until the timer fires (or, without a timer, until the browser
\* gives up with a TypeError).
Settles(r) ==
  IF r.signal /\ r.elapsed >= ProbeTimeoutMs THEN {Throw("AbortError")}
  ELSE IF r.cond = "sim" THEN {Response(FakeBridgeStatus(r.method, PathOf(r.url)))}
  ELSE IF r.cond = "bridge"
    THEN {Response(s) : s \in IF r.stage = "probe" THEN ProbeStatuses ELSE Statuses}
  ELSE {Throw("TypeError")}

\* What res.json() of the answer to r yields.
JsonOf(r) ==
  IF r.cond = "sim" THEN {FakeBridgeBody(r.method, PathOf(r.url))} ELSE Bodies

\* ok without its upper limit.
ResOk_noUpper(status) == status >= 200

\* Response.ok
ResOk(status) == status >= 200 /\ status <= 299

\* Array.isArray(data)
IsArray(body) == body \in {"errArr", "arr"}

\* data.error instead of data[0]?.error: undefined for every array.
FirstError_ofArray(body) == FALSE

\* data[0]?.error
FirstError(body) == body = "errArr"

\* data[0].error.description
Description(body) == "unauthorized user"

\* ------------------------------------------------------------------------
\* HueBridgeService
\* ------------------------------------------------------------------------

VARIABLES
  bridgeIp,    \* _bridgeIp
  apiKey,      \* _apiKey
  connected,   \* _connected
  apiVersion,  \* _apiVersion
  pc,          \* per handler slot: where its testConnection call stands
  req,         \* per slot: the fetch it awaits
  reach,       \* per slot: the local `reach` of testConnection
  hist,        \* per slot: the requests the call has issued, with their outcome
  result,      \* per slot: what the call returned
  lop,         \* per slot: the light/room operation the slot awaits
  app,         \* the React state of App
  job,         \* per signal slot: the sendSignal / clearAll handler running in it
  bulb,        \* the state the bridge keeps of the light Bulb
  field,       \* the React state bridgeIp and apiKey of App: the two inputs
  stored       \* localStorage: the values under the two keys of App

service == <<bridgeIp, apiKey, connected, apiVersion>>

\* The locals of the testConnection calls.
calls == <<pc, req, reach, hist, result>>

\* What lies outside the service and its testConnection calls.
outside == <<lop, app, job, bulb, field, stored>>

\* What lies outside the page's handlers: the light at the bridge, the
\* inputs of the settings page and localStorage.
beyond == <<bulb, field, stored>>

vars == <<bridgeIp, apiKey, connected, apiVersion, pc, req, reach, hist, result,
          lop, app, job, bulb, field, stored>>

NoReach == [pending |-> TRUE]

NoResult == [pending |-> TRUE]

\* Error texts of testConnection (the dash of the first is typeset "-").
ErrCert ==
  <<"Cannot reach the bridge - you need to accept its security certificate first.">>

ErrNetwork ==
  <<"Cannot reach the bridge. Check the IP address and make sure you're on the same network.">>

ErrInvalidKey == <<"Invalid API key.">>

ErrApiFailed == <<"Connected to bridge but API calls failed. Check your API key.">>

ErrRejected(body) == <<"API key rejected: ", Description(body)>>

\* The entry a request leaves in the history of its call.
Issued(r) ==
  [stage |-> r.stage, origin |-> OriginOf(r.url), cond |-> r.cond,
   out |-> Pending, body |-> "unread"]

\* The history of a call whose requests are not recorded.
NoHist == <<[stage |-> "unrecorded"]>>

Extend(h, r) == IF h = NoHist THEN h ELSE Append(h, Issued(r))

SetOut(h, out) == IF h = NoHist THEN h ELSE [h EXCEPT ![Len(h)].out = out]

SetBody(h, body) == IF h = NoHist THEN h ELSE [h EXCEPT ![Len(h)].body = body]

\* ------------------------------------------------------------------------
\* Rooms, signals and the bodies a bridge answers a room listing with
\* ------------------------------------------------------------------------

\* JavaScript undefined, for an id or a name.
Undefined == "#undefined"

\* if (x) of a string or undefined
Truthy(x) == x # Undefined /\ x # ""

\* x || y
OrElse(x, y) == IF Truthy(x) THEN x ELSE y

\* config/demoRooms.js (the dash of the names is typeset "-").
DEMO_ROOMS ==
  << [id |-> "room-1", name |-> "Room 1 - Consultation",
      lights |-> <<"light-1a">>, groupedLightId |-> "group-1"],
     [id |-> "room-2", name |-> "Room 2 - Examination",
      lights |-> <<"light-2a", "light-2b">>, groupedLightId |-> "group-2"],
     [id |-> "room-3", name |-> "Room 3 - Treatment",
      lights |-> <<"light-3a">>, groupedLightId |-> "group-3"],
     [id |-> "room-4", name |-> "Room 4 - Waiting Area",
      lights |-> <<"light-4a", "light-4b">>, groupedLightId |-> "group-4"] >>

\* A CIE xy colour; the coordinates are kept as the decimals written.
Xy(x, y) == [x |-> x, y |-> y]

\* config/signals.js: id, label, colour and brightness of each signal.
SIGNALS ==
  << [id |-> "room_ready", label |-> "Room Ready",
      color |-> Xy("0.17", "0.7"), brightness |-> 80],
     [id |-> "need_assistance", label |-> "Need Assistance",
      color |-> Xy("0.42", "0.505"), brightness |-> 100],
     [id |-> "doctor_needed", label |-> "Doctor Needed",
      color |-> Xy("0.154", "0.08"), brightness |-> 100],
     [id |-> "emergency", label |-> "Emergency",
      color |-> Xy("0.68", "0.31"), brightness |-> 100],
     [id |-> "clear", label |-> "Clear / Off",
      color |-> Null, brightness |-> 0] >>

SignalIds == {SIGNALS[i].id : i \in DOMAIN SIGNALS}

\* SIGNALS.find((s) => s.id === signalId), for an id of the table
FindSignal(signalId) ==
  SIGNALS[CHOOSE i \in DOMAIN SIGNALS : SIGNALS[i].id = signalId]

Device(rid) == [rtype |-> "device", rid |-> rid]

GroupedLight(rid) == [rtype |-> "grouped_light", rid |-> rid]

\* The room resources the simulation server lists.
SimRooms ==
  << [id |-> "room-1", name |-> "Room 1 - Consultation",
      children |-> <<Device("light-1a")>>, services |-> <<GroupedLight("group-1")>>],
     [id |-> "room-2", name |-> "Room 2 - Examination",
      children |-> <<Device("light-2a"), Device("light-2b")>>,
      services |-> <<GroupedLight("group-2")>>],
     [id |-> "room-3", name |-> "Room 3 - Treatment",
      children |-> <<Device("light-3a")>>, services |-> <<GroupedLight("group-3")>>],
     [id |-> "room-4", name |-> "Room 4 - Waiting Area",
      children |-> <<Device("light-4a"), Device("light-4b")>>,
      services |-> <<GroupedLight("group-4")>>] >>

\* The rooms of the clinic's bridge as its v2 API lists them: a ward that
\* has a grouped_light service, and a lab of two lights that has none.
WardRooms ==
  << [id |-> "r1", name |-> "Ward",
      children |-> <<Device("l1")>>, services |-> <<GroupedLight("g1")>>],
     [id |-> "r2", name |-> Undefined,
      children |-> <<Device("l2"), [rtype |-> "bridge_home", rid |-> "b"], Device("l3")>>,
      services |-> <<>>] >>

\* Its groups as the v1 API lists them, keyed by group id.
WardGroups ==
  << [key |-> "1", name |-> "Ward", type |-> "Room", lights |-> <<"1", "2">>],
     [key |-> "2", name |-> "Upstairs", type |-> "Zone", lights |-> <<"1">>] >>

\* What res.json() of a room listing yields: {data: [...]} from the v2 API,
\* an object keyed by group id from the v1 API, or no JSON at all.
DataBody(rooms) == [shape |-> "data", data |-> rooms]

KeyedBody(groups) == [shape |-> "keyed", entries |-> groups]

UnreadableBody == [shape |-> "unreadable"]

V2RoomBodies == {DataBody(WardRooms), DataBody(<<>>), UnreadableBody}

V1GroupBodies == {KeyedBody(WardGroups), UnreadableBody}

\* Signal slots: at most this many sendSignal / clearAll handlers overlap.
Jobs == {"j1", "j2"}

Slots == Calls \cup Jobs

\* The presses of a signal button in one run of the page; Clear All is
\* pressed once at most.
Presses == {"first"}

\* The presses of a session without a disconnect.
TwoPresses == {"first", "second"}

\* The signal buttons the user presses, and the room cards (by their place
\* in the list) whose buttons the user presses.
Pressed == {"emergency", "clear"}

PressedCards == {1, 2}

\* addLog keeps this many of the older entries.
LogKeep == 49

NoOp == [name |-> "none"]

NoJob == [kind |-> "idle"]

\* An object without keys.
EmptyMap == [k \in {} |-> ""]

\* The state of App when it is mounted.  Left out: the view, the toast, and
\* the texts connectionError and certUrl (certUrl is not empty while
\* needsCert is set).  presses and cleared record the user's presses.
AppInit ==
  [connected |-> FALSE, demoMode |-> TRUE, apiVersion |-> "", needsCert |-> FALSE,
   rooms |-> DEMO_ROOMS, roomSignals |-> EmptyMap, logs |-> <<>>,
   presses |-> {}, cleared |-> FALSE]

\* The light as the bridge holds it before any command: off.  on, and
\* the brightness and colour in the terms of the API that wrote them.
BulbInit == [on |-> FALSE, via |-> "none"]

\* localStorage of a browser that has never saved a value: getItem
\* answers null for both keys.
NoStorage == [ip |-> Null, key |-> Null]

\* useState(() => localStorage.getItem(...) || ""): "" for null and for "".
FieldInit(st) ==
  [ip |-> IF st.ip = Null THEN <<>> ELSE st.ip,
   key |-> IF st.key = Null THEN <<>> ELSE st.key]

Init ==
  /\ bridgeIp = Null
  /\ apiKey = Null
  /\ connected = FALSE
  /\ apiVersion = NoVersion
  /\ pc = [c \in Calls |-> "idle"]
  /\ req = [c \in Calls |-> NoReq]
  /\ reach = [c \in Calls |-> NoReach]
  /\ hist = [c \in Calls |-> <<>>]
  /\ result = [c \in Calls |-> NoResult]
  /\ lop = [s \in Slots |-> NoOp]
  /\ app = AppInit
  /\ job = [s \in Jobs |-> NoJob]
  /\ bulb = BulbInit
  /\ field = FieldInit(NoStorage)
  /\ stored = NoStorage

\* configure that forgets to clear the negotiated version.
Configure_keepsVersion(ip, key) ==
  /\ bridgeIp' = CleanIp(ip)
  /\ apiKey' = Trim(key)
  /\ connected' = FALSE
  /\ UNCHANGED <<apiVersion, pc, req, reach, hist, result>>

\* configure(ip, apiKey)
Configure(ip, key) ==
  /\ bridgeIp' = CleanIp(ip)
  /\ apiKey' = Trim(key)
  /\ connected' = FALSE
  /\ apiVersion' = NoVersion
  /\ UNCHANGED <<pc, req, reach, hist, result>>

\* checkReachability, the branch for localhost: what the fetch's outcome gives.
ReachLocal(out) ==
  IF out.kind = "response"
    THEN [reachable |-> TRUE]
    ELSE [reachable |-> FALSE, reason |-> "network"]

\* The remote branch with the test of err.name inverted.
ReachRemote_swapped(out) ==
  IF out.kind = "response" THEN [reachable |-> TRUE]
  ELSE IF out.name = "AbortError" THEN [reachable |-> FALSE, reason |-> "cert"]
  ELSE [reachable |-> FALSE, reason |-> "network"]

\* checkReachability, the branch for every other host.
ReachRemote(out) ==
  IF out.kind = "response" THEN [reachable |-> TRUE]
  ELSE IF out.name = "AbortError" THEN [reachable |-> FALSE, reason |-> "network"]
  ELSE [reachable |-> FALSE, reason |-> "cert"]

\* testConnection that returns early only for a certificate problem.
StopsAfterProbe_certOnly(r) == ~r.reachable /\ r.reason = "cert"

\* if (!reach.reachable)
StopsAfterProbe(r) == ~r.reachable

\* The status test without its second disjunct.
IsAuthRejection_only403(status) == status = 403

\* res.status === 403 || res.status === 401
IsAuthRejection(status) == status = 403 \/ status = 401

\* The embedded-error test reduced to Array.isArray(data).
EmbeddedError_anyArray(body) == IsArray(body)

\* Array.isArray(data) && data[0]?.error
EmbeddedError(body) == IsArray(body) /\ FirstError(body)

\* The results testConnection returns.
CertResult(ip) ==
  [success |-> FALSE, needsCert |-> TRUE, certUrl |-> GetCertAcceptUrl(ip), error |-> ErrCert]

NetworkResult == [success |-> FALSE, error |-> ErrNetwork]

InvalidKeyResult == [success |-> FALSE, error |-> ErrInvalidKey]

RejectedResult(body) == [success |-> FALSE, error |-> ErrRejected(body)]

\* A failure without its text.
ApiFailedResult_noError == [success |-> FALSE]

ApiFailedResult == [success |-> FALSE, error |-> ErrApiFailed]

SuccessResult(v) == [success |-> TRUE, apiVersion |-> v]

Return_staleVersion(c, res) ==
  /\ result' = [result EXCEPT ![c] = res]
  /\ pc' = [pc EXCEPT ![c] = "done"]
  /\ req' = [req EXCEPT ![c] = NoReq]
  /\ connected' = res.success
  /\ UNCHANGED <<bridgeIp, apiKey, apiVersion>>

\* The call in slot c returns res, having set _connected (and _apiVersion
\* when it succeeded).
Return(c, res) ==
  /\ result' = [result EXCEPT ![c] = res]
  /\ pc' = [pc EXCEPT ![c] = "done"]
  /\ req' = [req EXCEPT ![c] = NoReq]
  /\ connected' = res.success
  /\ apiVersion' = IF res.success THEN res.apiVersion ELSE apiVersion
  /\ UNCHANGED <<bridgeIp, apiKey>>

\* The call in slot c issues its next request and awaits it at label next.
Issue(c, h, stage, url, headers, next) ==
  \E cond \in Listeners(url) :
    LET r == Fetch(stage, "GET", url, headers, next = "probeRemote", cond) IN
      /\ req' = [req EXCEPT ![c] = r]
      /\ hist' = [hist EXCEPT ![c] = Extend(h, r)]
      /\ pc' = [pc EXCEPT ![c] = next]

\* testConnection() is called: checkReachability runs up to its fetch.
\* h is <<>> when the requests of the call are recorded in hist, NoHist
\* when they are not.
TestFrom(c, h) ==
  /\ pc[c] \in {"idle", "done"}
  /\ IF StartsWithLocalhost(bridgeIp)
       THEN Issue(c, h, "probe", BridgeOrigin(bridgeIp) \o <<"/api">>,
                  NoHeaders, "probeLocal")
       ELSE Issue(c, h, "probe", <<"https", "://">> \o Str(bridgeIp) \o <<"/api">>,
                  NoHeaders, "probeRemote")
  /\ reach' = [reach EXCEPT ![c] = NoReach]
  /\ result' = [result EXCEPT ![c] = NoResult]
  /\ UNCHANGED service

TestConnection(c) == TestFrom(c, <<>>)

\* Time passes for a probe that carries an abort signal.
Tick(c) ==
  /\ pc[c] = "probeRemote"
  /\ req[c].elapsed < ProbeTimeoutMs
  /\ req' = [req EXCEPT ![c].elapsed =
               IF @ + TickMs > ProbeTimeoutMs THEN ProbeTimeoutMs ELSE @ + TickMs]
  /\ UNCHANGED <<service, pc, reach, hist, result>>

\* The probe's fetch settles: checkReachability returns and testConnection
\* goes on to step 2, or returns.
ProbeSettles(c) ==
  /\ pc[c] \in {"probeLocal", "probeRemote"}
  /\ \E out \in Settles(req[c]) :
       LET r == IF pc[c] = "probeLocal" THEN ReachLocal(out) ELSE ReachRemote(out)
           h == SetOut(hist[c], out)
       IN  /\ reach' = [reach EXCEPT ![c] = r]
           /\ IF StopsAfterProbe(r)
                THEN /\ Return(c, IF r.reason = "cert"
                                    THEN CertResult(bridgeIp) ELSE NetworkResult)
                     /\ hist' = [hist EXCEPT ![c] = h]
                ELSE /\ Issue(c, h, "v2", BaseUrlV2(bridgeIp) \o <<"/resource/light">>,
                              HeadersV2(apiKey), "v2")
                     /\ UNCHANGED <<service, result>>

\* The v2 fetch settles.
V2Settles(c) ==
  /\ pc[c] = "v2"
  /\ \E out \in Settles(req[c]) :
       LET h == SetOut(hist[c], out) IN
         IF out.kind = "response" /\ ResOk(out.status)
           THEN /\ Return(c, SuccessResult("v2"))
                /\ hist' = [hist EXCEPT ![c] = h]
                /\ UNCHANGED reach
         ELSE IF out.kind = "response" /\ IsAuthRejection(out.status)
           THEN /\ Return(c, InvalidKeyResult)
                /\ hist' = [hist EXCEPT ![c] = h]
                /\ UNCHANGED reach
         ELSE /\ Issue(c, h, "v1", BaseUrlV1(bridgeIp, apiKey) \o <<"/lights">>,
                       HeadersV1, "v1")
              /\ UNCHANGED <<service, reach, result>>

\* The v1 fetch settles.
V1Settles(c) ==
  /\ pc[c] = "v1"
  /\ \E out \in Settles(req[c]) :
       /\ hist' = [hist EXCEPT ![c] = SetOut(@, out)]
       /\ IF out.kind = "response" /\ ResOk(out.status)
            THEN /\ pc' = [pc EXCEPT ![c] = "v1json"]
                 /\ UNCHANGED <<service, req, result>>
            ELSE Return(c, ApiFailedResult)
       /\ UNCHANGED reach

\* res.json() of the v1 answer settles.
V1Json(c) ==
  /\ pc[c] = "v1json"
  /\ \E body \in JsonOf(req[c]) :
       /\ hist' = [hist EXCEPT ![c] = SetBody(@, body)]
       /\ IF body = "unreadable" THEN Return(c, ApiFailedResult)
          ELSE IF EmbeddedError(body) THEN Return(c, RejectedResult(body))
          ELSE Return(c, SuccessResult("v1"))
       /\ UNCHANGED reach

\* ------------------------------------------------------------------------
\* HueBridgeService: the light and room operations
\* ------------------------------------------------------------------------

ListOps == {"getLights", "getRooms"}

LightOps == {"setLightColor", "turnOff", "signalLight"}

GroupOps == {"setGroupedLightColor", "turnOffGroup"}

OpNames == ListOps \cup LightOps \cup GroupOps

\* The path an operation appends to _baseUrlV2().
V2Path(name, id) ==
  IF name = "getLights" THEN <<"/resource/light">>
  ELSE IF name = "getRooms" THEN <<"/resource/room">>
  ELSE IF name \in LightOps THEN <<"/resource/light/", id>>
  ELSE <<"/resource/grouped_light/", id>>

\* The path it appends to _baseUrlV1().
V1Path(name, id) ==
  IF name = "getLights" THEN <<"/lights">>
  ELSE IF name = "getRooms" THEN <<"/groups">>
  ELSE IF name \in LightOps THEN <<"/lights/", id, "/state">>
  ELSE <<"/groups/", id, "/action">>

\* if (this._apiVersion === "v2") ... else ...
Branch(ver) == IF ver = "v2" THEN "v2" ELSE "v1"

\* Every operation built for the v1 API, whatever was negotiated.
OpUrl_alwaysV1(name, id, ip, key, ver) == BaseUrlV1(ip, key) \o V1Path(name, id)

OpUrl(name, id, ip, key, ver) ==
  IF Branch(ver) = "v2"
    THEN BaseUrlV2(ip) \o V2Path(name, id)
    ELSE BaseUrlV1(ip, key) \o V1Path(name, id)

OpHeaders_keyed(key, ver) == HeadersV2(key)

\* headers: this._headersV2() on the modern branch, this._headersV1() on the
\* other.
OpHeaders(key, ver) == IF Branch(ver) = "v2" THEN HeadersV2(key) ELSE HeadersV1

OpMethod(name) == IF name \in ListOps THEN "GET" ELSE "PUT"

\* if (!res.ok) throw ...: every operation but signalLight has the test.
ChecksOk(name) == name # "signalLight"

ColorOps == {"setLightColor", "setGroupedLightColor"}

OffOps == {"turnOff", "turnOffGroup"}

\* The arguments a caller hands over after the id: none, the colour, or
\* the colour and the brightness.  The parameter brightness = 100 takes
\* its default when the caller leaves it out.
Percent(args) == IF Len(args) < 2 THEN 100 ELSE args[2]

\* bri cut off instead of rounded.
Bri_truncated(brightness) == (brightness * 254) \div 100

\* Math.round((brightness / 100) * 254): the nearest integer, a half going
\* up.  For an integer percentage the product is a multiple of 1/50, so
\* the floating-point result rounds as the exact one does.
Bri(brightness) == (2 * brightness * 254 + 100) \div 200

\* The body of a colour command for API v1 that sends the percentage as bri.
ColorBodyV1_percent(color, brightness) ==
  [on |-> TRUE, bri |-> brightness, xy |-> <<color.x, color.y>>]

\* { on: true, bri: ..., xy: [color.x, color.y] }
ColorBodyV1(color, brightness) ==
  [on |-> TRUE, bri |-> Bri(brightness), xy |-> <<color.x, color.y>>]

\* { on: { on: true }, dimming: { brightness }, color: { xy: { x, y } } }
ColorBodyV2(color, brightness) ==
  [on |-> [on |-> TRUE], dimming |-> [brightness |-> brightness],
   color |-> [xy |-> [x |-> color.x, y |-> color.y]]]

\* A power-off for API v2 that also dims the light to nothing.
OffBody_dimmed(ver) ==
  IF ver = "v2" THEN [on |-> [on |-> FALSE], dimming |-> [brightness |-> 0]]
  ELSE [on |-> FALSE, bri |-> 0]

\* { on: { on: false } } and { on: false }
OffBody(ver) == IF ver = "v2" THEN [on |-> [on |-> FALSE]] ELSE [on |-> FALSE]

\* { alert: { action: "breathe" } } and { alert: "lselect" }
AlertBody(ver) ==
  IF ver = "v2" THEN [alert |-> [action |-> "breathe"]] ELSE [alert |-> "lselect"]

\* The object an operation hands to JSON.stringify as the body of its
\* request; a GET has none.
OpBody(name, args, ver) ==
  IF name \in ColorOps
    THEN (IF ver = "v2" THEN ColorBodyV2(args[1], Percent(args))
          ELSE ColorBodyV1(args[1], Percent(args)))
  ELSE IF name \in OffOps THEN OffBody(ver)
  ELSE IF name = "signalLight" THEN AlertBody(ver)
  ELSE Undefined

\* The operation name(id, ...args) is called in slot s: it runs up to its
\* fetch.
CallOp(s, name, id, args) ==
  LET url == OpUrl(name, id, bridgeIp, apiKey, apiVersion) IN
    \E cond \in Listeners(url) :
      lop' = [lop EXCEPT ![s] =
                [name |-> name, id |-> id, via |-> Branch(apiVersion), state |-> "fetch",
                 args |-> args, body |-> OpBody(name, args, Branch(apiVersion)),
                 req |-> Fetch(name, OpMethod(name), url,
                               OpHeaders(apiKey, apiVersion), FALSE, cond)]]

\* The operation of slot s is over: it threw, or returned value.
Threw(o) == [name |-> o.name, id |-> o.id, via |-> o.via, state |-> "threw"]

\* status is the status of the answer the operation has read.
Returned(o, value) ==
  [name |-> o.name, id |-> o.id, via |-> o.via, state |-> "returned", value |-> value,
   status |-> o.status]

\* The operation has its response and awaits res.json().
Reading(o, status) ==
  [name |-> o.name, id |-> o.id, via |-> o.via, state |-> "json", args |-> o.args,
   body |-> o.body, req |-> o.req, status |-> status]

InFlight(o) == o.name # "none" /\ o.state \in {"fetch", "json"}

Over(o) == o.name # "none" /\ o.state \in {"returned", "threw"}

\* The fetch of the operation settles.
OpSettles(s) ==
  /\ lop[s].name # "none" /\ lop[s].state = "fetch"
  /\ \E out \in Settles(lop[s].req) :
       lop' = [lop EXCEPT ![s] =
                 IF out.kind = "response" /\ (ChecksOk(@.name) => ResOk(out.status))
                   THEN Reading(@, out.status)
                   ELSE Threw(@)]

\* What res.json() of the answer to a room listing yields.
RoomsJson(r) ==
  IF r.cond = "sim" THEN {DataBody(SimRooms)}
  ELSE IF Head(PathOf(r.url)) = "/clip/v2" THEN V2RoomBodies
  ELSE V1GroupBodies

\* getRooms under v2: data.data || []
GetRoomsV2(body) == IF body.shape = "data" THEN body.data ELSE <<>>

IsRoomGroup_any(g) == TRUE

\* .filter(([, group]) => group.type === "Room")
IsRoomGroup(g) == g.type = "Room"

\* The room resource getRooms builds from one v1 group.
FromGroup(g) ==
  [id |-> g.key, name |-> g.name,
   children |-> [i \in DOMAIN g.lights |-> Device(g.lights[i])],
   services |-> <<GroupedLight(g.key)>>]

\* getRooms under v1: Object.entries(data).filter(...).map(...)
GetRoomsV1(body) ==
  LET kept == SelectSeq(body.entries, IsRoomGroup) IN
    [i \in DOMAIN kept |-> FromGroup(kept[i])]

\* The light whose state at the bridge is followed, and its group.
Bulb == "light-1a"

BulbGroup == "group-1"

\* The light resource the v2 API lists for the light.  A light last
\* written through the v1 API has the brightness the bridge derives from
\* its bri.
V2Light(b) ==
  [id |-> Bulb, metadata |-> [name |-> "Consultation Lamp"], on |-> [on |-> b.on],
   dimming |-> [brightness |-> IF b.via = "v2" THEN b.brightness
                               ELSE IF b.via = "v1" THEN [of254 |-> b.bri] ELSE 0],
   color |-> IF b.via = "none" THEN [xy |-> Xy("0.31", "0.33")]
             ELSE [xy |-> Xy(b.x, b.y)]]

\* The entry the v1 API lists for it, under its id.
V1Light(b) ==
  [key |-> Bulb, name |-> "Consultation Lamp",
   state |-> [on |-> b.on,
              bri |-> IF b.via = "v1" THEN b.bri
                      ELSE IF b.via = "v2" THEN Bri(b.brightness) ELSE 0,
              xy |-> IF b.via = "none" THEN <<"0.31", "0.33">> ELSE <<b.x, b.y>>]]

\* A body that reports an error: {errors: [...]} from the v2 API, an array
\* whose first element has an error from the v1 API.
ErrorBody == [shape |-> "errors"]

\* What res.json() of the answer to a light listing yields.
LightsJson(r) ==
  IF r.cond = "sim" THEN {DataBody(<<V2Light(bulb)>>)}
  ELSE IF Head(PathOf(r.url)) = "/clip/v2"
    THEN {DataBody(<<V2Light(bulb)>>), ErrorBody, UnreadableBody}
  ELSE {KeyedBody(<<V1Light(bulb)>>), ErrorBody, UnreadableBody}

\* getLights under v2: data.data || []
GetLightsV2(body) == IF body.shape = "data" THEN body.data ELSE <<>>

\* The light getLights builds from one entry of the v1 listing.
FromLight(l) ==
  [id |-> l.key, metadata |-> [name |-> l.name], on |-> [on |-> l.state.on],
   dimming |-> [brightness |-> l.state.bri],
   color |-> [xy |-> Xy(l.state.xy[1], l.state.xy[2])]]

\* What the same mapping makes of the one entry ["0", {error}] of an
\* error array: the fields it reads are all undefined.
FromError ==
  [id |-> "0", metadata |-> [name |-> Undefined], on |-> [on |-> Undefined],
   dimming |-> [brightness |-> Undefined], color |-> Undefined]

\* getLights under v1: Object.entries(data).map(...)
GetLightsV1(body) ==
  IF body.shape = "keyed" THEN [i \in DOMAIN body.entries |-> FromLight(body.entries[i])]
  ELSE <<FromError>>

\* What res.json() of the answer the operation o has received may yield.
Answers(o) ==
  IF o.name = "getRooms" THEN RoomsJson(o.req)
  ELSE IF o.name = "getLights" THEN LightsJson(o.req)
  ELSE JsonOf(o.req)

\* The operation o after res.json() has yielded body: a listing returns
\* its normalised form, a command returns the body as it is; a body that
\* is no JSON makes res.json() throw.
Reads(o, body) ==
  IF o.name \in ListOps
    THEN (IF body.shape = "unreadable" THEN Threw(o)
          ELSE IF o.name = "getRooms"
            THEN Returned(o, IF o.via = "v2" THEN GetRoomsV2(body) ELSE GetRoomsV1(body))
          ELSE Returned(o, IF o.via = "v2" THEN GetLightsV2(body) ELSE GetLightsV1(body)))
  ELSE IF body = "unreadable" THEN Threw(o)
  ELSE Returned(o, body)

\* res.json() of the operation settles, and the operation returns.
OpJson(s) ==
  /\ lop[s].name # "none" /\ lop[s].state = "json"
  /\ \E body \in Answers(lop[s]) : lop' = [lop EXCEPT ![s] = Reads(@, body)]

\* The bridge has carried out the command o when it answers it with body.
Accepts(o, body) ==
  /\ \/ o.name \in {"setLightColor", "turnOff"} /\ o.id = Bulb
     \/ o.name \in GroupOps /\ o.id = BulbGroup
  /\ ResOk(o.status)
  /\ body \in {"obj", "arr", "data"}

\* The light after the bridge has carried out the command o: it keeps
\* the fields of the body, in the terms of the API that sent them.
Applied(b, o) ==
  IF o.name \in OffOps THEN [b EXCEPT !.on = FALSE]
  ELSE IF o.via = "v2"
    THEN [on |-> TRUE, via |-> "v2", brightness |-> o.body.dimming.brightness,
          x |-> o.body.color.xy.x, y |-> o.body.color.xy.y]
  ELSE [on |-> TRUE, via |-> "v1", bri |-> o.body.bri,
        x |-> o.body.xy[1], y |-> o.body.xy[2]]

\* OpJson with the light at the bridge followed: the bridge has applied
\* a command it answers without an error.
OpJsonAtBridge(s) ==
  /\ lop[s].name # "none" /\ lop[s].state = "json"
  /\ \E body \in Answers(lop[s]) :
       /\ lop' = [lop EXCEPT ![s] = Reads(@, body)]
       /\ bulb' = IF Accepts(lop[s], body) THEN Applied(bulb, lop[s]) ELSE bulb

\* The ids a caller of the service hands to an operation.
OpTargets(name) ==
  IF name \in ListOps THEN {Undefined}
  ELSE IF name \in LightOps THEN {"light-1a"}
  ELSE {"group-1"}

\* A caller of the service calls an operation, in a slot that awaits none.
Operation(s, name, id, args) ==
  /\ ~InFlight(lop[s])
  /\ CallOp(s, name, id, args)
  /\ UNCHANGED <<service, calls, app, job, beyond>>

\* ------------------------------------------------------------------------
\* App: the handlers of the page
\* ------------------------------------------------------------------------
\* A handler reads the state of the render its button belongs to: a running
\* sendSignal or clearAll keeps the rooms, demoMode and connected of the
\* moment of the press.  A functional update (setRoomSignals, setLogs)
\* applies to the state of the moment it runs.  The continuation of an
\* await runs as soon as the awaited promise settles, before the next
\* click or network event.  The 300 ms timer that re-enables the buttons
\* of a room card has fired by the time the next button is pressed.

\* What the two fields hold when Connect is pressed.
FieldHosts == RawHosts \cup {<<>>}

\* The same at a clinic: the address of its bridge, or nothing yet.
ClinicHosts == {<<"10.0.0.5">>, <<"https://", "10.0.0.5", "/">>, <<>>}

FieldKeys == RawKeys \cup {<<>>}

IsDevice(c) == c.rtype = "device"

IsGroupedLight(v) == v.rtype = "grouped_light"

\* The room App makes of a room resource of the bridge.
MapRoom(r) ==
  LET devices == SelectSeq(r.children, IsDevice)
      grouped == SelectSeq(r.services, IsGroupedLight)
  IN  [id |-> r.id,
       name |-> OrElse(r.name, r.id),
       lights |-> [i \in DOMAIN devices |-> devices[i].rid],
       groupedLightId |-> IF grouped = <<>> THEN Undefined ELSE grouped[1].rid]

MapRooms(bridgeRooms) == [i \in DOMAIN bridgeRooms |-> MapRoom(bridgeRooms[i])]

RoomIds(rooms) == {rooms[i].id : i \in DOMAIN rooms}

\* rooms.find((r) => r.id === roomId), for the id of a listed room
FindRoom(rooms, roomId) ==
  rooms[CHOOSE i \in DOMAIN rooms :
          rooms[i].id = roomId /\ \A k \in 1..(i - 1) : rooms[k].id # roomId]

\* addLog that records every send as a success.
AddLog_alwaysOk(lg, roomName, signalLabel, success) ==
  <<[roomName |-> roomName, signalLabel |-> signalLabel, success |-> TRUE]>>
    \o SubSeq(lg, 1, IF Len(lg) < LogKeep THEN Len(lg) ELSE LogKeep)

\* addLog without its slice: every older entry is kept.
AddLog_keepsAll(lg, roomName, signalLabel, success) ==
  <<[roomName |-> roomName, signalLabel |-> signalLabel, success |-> success]>> \o lg

\* addLog: the new entry first, then the first LogKeep of the older ones
\* (the id and the timestamp of an entry are left out).
AddLog(lg, roomName, signalLabel, success) ==
  <<[roomName |-> roomName, signalLabel |-> signalLabel, success |-> success]>>
    \o SubSeq(lg, 1, IF Len(lg) < LogKeep THEN Len(lg) ELSE LogKeep)

\* The update of roomSignals a successful send makes.
Mark(sig, roomId, signalId) ==
  IF signalId = "clear"
    THEN [k \in DOMAIN sig \ {roomId} |-> sig[k]]
    ELSE [k \in DOMAIN sig \cup {roomId} |-> IF k = roomId THEN signalId ELSE sig[k]]

\* The operation a live send calls for a room that has a group id, and the
\* one it calls for each light of a room that has none.
GroupOpOf(signalId) == IF signalId = "clear" THEN "turnOffGroup" ELSE "setGroupedLightColor"

LightOpOf(signalId) == IF signalId = "clear" THEN "turnOff" ELSE "setLightColor"

\* A send that commands every light of a room although it has a group id.
UsesGroup_never(room) == FALSE

\* if (room.groupedLightId)
UsesGroup(room) == Truthy(room.groupedLightId)

\* The handler j stops at an await of the operation name(id).
Await(j, name, id, sig, lg) ==
  [job |-> [j EXCEPT !.trace =
              Append(@, [name |-> name, id |-> id, room |-> Head(j.todo).id,
                         out |-> "pending"])],
   want |-> [name |-> name, id |-> id], sig |-> sig, logs |-> lg]

\* The handler j runs from the start of sendSignal for the first room of
\* j.todo up to its next await, or to its end; sig and lg are roomSignals
\* and logs as it goes.
RECURSIVE Begin(_, _, _)
Begin(j, sig, lg) ==
  IF j.todo = <<>> THEN [job |-> NoJob, want |-> NoOp, sig |-> sig, logs |-> lg]
  ELSE
    LET room == Head(j.todo)
        label == FindSignal(j.signal).label
        rest == [j EXCEPT !.todo = Tail(@), !.lights = <<>>]
    IN  IF j.live /\ UsesGroup(room)
          THEN Await([j EXCEPT !.lights = <<>>], GroupOpOf(j.signal),
                     room.groupedLightId, sig, lg)
        ELSE IF j.live /\ room.lights # <<>>
          THEN Await([j EXCEPT !.lights = room.lights], LightOpOf(j.signal),
                     Head(room.lights), sig, lg)
        ELSE Begin(rest, Mark(sig, room.id, j.signal),
                   AddLog(lg, room.name, label, TRUE))

\* A sendSignal that updates roomSignals before it looks at the outcome.
Resume_marksOnFailure(j, o, sig, lg) ==
  LET room == Head(j.todo)
      label == FindSignal(j.signal).label
      seen == [j EXCEPT !.trace[Len(j.trace)].out =
                 IF o.state = "threw" THEN "failed" ELSE "ok"]
      rest == [seen EXCEPT !.todo = Tail(@), !.lights = <<>>]
  IN  IF o.state = "threw"
        THEN Begin(rest, Mark(sig, room.id, j.signal),
                   AddLog(lg, room.name, label, FALSE))
      ELSE IF Len(j.lights) > 1
        THEN Await([seen EXCEPT !.lights = Tail(@)], o.name, j.lights[2], sig, lg)
      ELSE Begin(rest, Mark(sig, room.id, j.signal),
                 AddLog(lg, room.name, label, TRUE))

\* A sendSignal whose loop goes on to the next light after a failure.
Resume_goesOn(j, o, sig, lg) ==
  LET room == Head(j.todo)
      label == FindSignal(j.signal).label
      seen == [j EXCEPT !.trace[Len(j.trace)].out =
                 IF o.state = "threw" THEN "failed" ELSE "ok"]
      rest == [seen EXCEPT !.todo = Tail(@), !.lights = <<>>]
  IN  IF Len(j.lights) > 1
        THEN Await([seen EXCEPT !.lights = Tail(@)], o.name, j.lights[2], sig, lg)
      ELSE IF o.state = "threw"
        THEN Begin(rest, sig, AddLog(lg, room.name, label, FALSE))
      ELSE Begin(rest, Mark(sig, room.id, j.signal),
                 AddLog(lg, room.name, label, TRUE))

\* The handler j goes on after the operation o it awaited is over.
Resume(j, o, sig, lg) ==
  LET room == Head(j.todo)
      label == FindSignal(j.signal).label
      seen == [j EXCEPT !.trace[Len(j.trace)].out =
                 IF o.state = "threw" THEN "failed" ELSE "ok"]
      rest == [seen EXCEPT !.todo = Tail(@), !.lights = <<>>]
  IN  IF o.state = "threw"
        THEN Begin(rest, sig, AddLog(lg, room.name, label, FALSE))
      ELSE IF Len(j.lights) > 1
        THEN Await([seen EXCEPT !.lights = Tail(@)], o.name, j.lights[2], sig, lg)
      ELSE Begin(rest, Mark(sig, room.id, j.signal),
                 AddLog(lg, room.name, label, TRUE))

\* A continuation is due: an awaited promise has settled.
Due(c) == pc[c] = "done" \/ (pc[c] = "rooms" /\ Over(lop[c]))

DueJob(s) == job[s].kind # "idle" /\ Over(lop[s])

Quiet == (\A c \in Calls : ~Due(c)) /\ (\A s \in Jobs : ~DueJob(s))

\* The slot a new handler runs in.
FreeCall == IF pc["h1"] = "idle" THEN "h1" ELSE "h2"

FreeJob == IF job["j1"].kind = "idle" THEN "j1" ELSE "j2"

\* The buttons of the card of the room are disabled.
Sending(roomId) ==
  \E s \in Jobs : job[s].kind = "send" /\ Head(job[s].todo).id = roomId

\* The handler of slot c has ended: its locals are gone.
EndCall(c) ==
  /\ pc' = [pc EXCEPT ![c] = "idle"]
  /\ req' = [req EXCEPT ![c] = NoReq]
  /\ reach' = [reach EXCEPT ![c] = NoReach]
  /\ hist' = [hist EXCEPT ![c] = <<>>]
  /\ result' = [result EXCEPT ![c] = NoResult]

\* Connect (or Retry) is pressed with ip and key in the fields:
\* handleConnect up to its await of testConnection.  The requests of the
\* call are not recorded in hist.
HandleConnect(c, ip, key) ==
  /\ Quiet
  /\ pc[c] = "idle"
  /\ ~app.connected \/ app.needsCert
  /\ app' = [app EXCEPT !.needsCert = FALSE]
  /\ IF ip = <<>> \/ key = <<>>
       THEN UNCHANGED <<service, calls, lop, job, beyond>>
       ELSE /\ bridgeIp' = CleanIp(ip)
            /\ apiKey' = Trim(key)
            /\ connected' = FALSE
            /\ apiVersion' = NoVersion
            /\ IF StartsWithLocalhost(CleanIp(ip))
                 THEN Issue(c, NoHist, "probe", BridgeOrigin(CleanIp(ip)) \o <<"/api">>,
                            NoHeaders, "probeLocal")
                 ELSE Issue(c, NoHist, "probe",
                            <<"https", "://">> \o Str(CleanIp(ip)) \o <<"/api">>,
                            NoHeaders, "probeRemote")
            /\ UNCHANGED <<reach, result, lop, job, beyond>>

\* testConnection has returned to handleConnect.
ConnectResumes(c) ==
  /\ pc[c] = "done"
  /\ IF result[c].success
       THEN /\ app' = [app EXCEPT !.connected = TRUE, !.demoMode = FALSE,
                                  !.apiVersion = OrElse(result[c].apiVersion, "")]
            /\ CallOp(c, "getRooms", Undefined, <<>>)
            /\ pc' = [pc EXCEPT ![c] = "rooms"]
            /\ UNCHANGED <<req, reach, hist, result>>
       ELSE /\ app' = IF "needsCert" \in DOMAIN result[c]
                        THEN [app EXCEPT !.needsCert = TRUE]
                        ELSE app
            /\ EndCall(c)
            /\ UNCHANGED lop
  /\ UNCHANGED <<service, job, beyond>>

\* getRooms has returned to handleConnect, or thrown.
RoomsArrive(c) ==
  /\ pc[c] = "rooms" /\ Over(lop[c])
  /\ app' = IF lop[c].state = "returned" /\ Len(MapRooms(lop[c].value)) > 0
              THEN [app EXCEPT !.rooms = MapRooms(lop[c].value)]
              ELSE app
  /\ lop' = [lop EXCEPT ![c] = NoOp]
  /\ EndCall(c)
  /\ UNCHANGED <<service, job, beyond>>

\* Disconnect is pressed.
HandleDisconnect ==
  /\ Quiet
  /\ app.connected
  /\ app' = [app EXCEPT !.connected = FALSE, !.demoMode = TRUE, !.apiVersion = "",
                        !.rooms = DEMO_ROOMS, !.roomSignals = EmptyMap]
  /\ UNCHANGED <<service, calls, lop, job, beyond>>

\* What sendSignal hands an operation after the id: signal.color and
\* signal.brightness to a colour command, nothing to a power-off.
ArgsOf(name, signalId) ==
  IF name \in ColorOps
    THEN <<FindSignal(signalId).color, FindSignal(signalId).brightness>>
    ELSE <<>>

\* The handler of slot s has run up to st: its await, or its end.
Proceed(s, st, pressed, cleared) ==
  /\ job' = [job EXCEPT ![s] = st.job]
  /\ app' = [app EXCEPT !.roomSignals = st.sig, !.logs = st.logs,
                        !.presses = @ \cup pressed, !.cleared = @ \/ cleared]
  /\ IF st.want = NoOp
       THEN lop' = [lop EXCEPT ![s] = NoOp]
       ELSE CallOp(s, st.want.name, st.want.id, ArgsOf(st.want.name, st.job.signal))
  /\ UNCHANGED <<service, calls, beyond>>

\* Every send goes to the bridge.
Live_always == TRUE

\* if (!demoMode && connected)
Live == ~app.demoMode /\ app.connected

\* A handler as it starts: the rooms and the mode of the render, the signal,
\* the rooms it is to send to (the first is the one it is at), the lights
\* of that room still to command, and the commands it has issued.
NewJob(kind, signalId, todo) ==
  [kind |-> kind, rooms |-> app.rooms, live |-> Live, signal |-> signalId,
   todo |-> todo, lights |-> <<>>, trace |-> <<>>]

\* A signal button of the card of a room is pressed: RoomCard.handleSignal
\* and sendSignal up to its first await, or to its end.
PressSignal(roomId, signalId, budget) ==
  LET s == FreeJob IN
    /\ Quiet
    /\ job[s].kind = "idle"
    /\ app.presses # budget
    /\ \E i \in PressedCards \cap DOMAIN app.rooms : app.rooms[i].id = roomId
    /\ ~Sending(roomId)
    /\ Proceed(s, Begin(NewJob("send", signalId, <<FindRoom(app.rooms, roomId)>>),
                        app.roomSignals, app.logs),
               {CHOOSE p \in budget : p \notin app.presses}, FALSE)

\* Clear All is pressed: clearAll up to its first await, or to its end.
PressClearAll ==
  LET s == FreeJob IN
    /\ Quiet
    /\ job[s].kind = "idle"
    /\ ~app.cleared
    /\ DOMAIN app.roomSignals # {}
    /\ Proceed(s, Begin(NewJob("clearAll", "clear",
                               [i \in DOMAIN app.rooms |->
                                  FindRoom(app.rooms, app.rooms[i].id)]),
                        app.roomSignals, app.logs), {}, TRUE)

\* The operation sendSignal awaited is over: the handler goes on.
JobResumes(s) ==
  /\ DueJob(s)
  /\ Proceed(s, Resume(job[s], lop[s], app.roomSignals, app.logs), {}, FALSE)

\* The page at a clinic: the user's clicks (Connect while no handleConnect
\* is running), the network's answers and the continuations of the
\* handlers.
NextApp ==
  \/ \E ip \in ClinicHosts, key \in FieldKeys : HandleConnect("h1", ip, key)
  \/ \E c \in Calls : ConnectResumes(c)
  \/ \E c \in Calls : RoomsArrive(c)
  \/ HandleDisconnect
  \/ \E roomId \in RoomIds(app.rooms), signalId \in Pressed :
       PressSignal(roomId, signalId, Presses)
  \/ PressClearAll
  \/ \E s \in Jobs : JobResumes(s)
  \/ \E c \in Calls : Quiet /\ Tick(c) /\ UNCHANGED outside
  \/ \E c \in Calls : Quiet /\ ProbeSettles(c) /\ UNCHANGED outside
  \/ \E c \in Calls : Quiet /\ V2Settles(c) /\ UNCHANGED outside
  \/ \E c \in Calls : Quiet /\ V1Settles(c) /\ UNCHANGED outside
  \/ \E c \in Calls : Quiet /\ V1Json(c) /\ UNCHANGED outside
  \/ \E s \in Slots : Quiet /\ OpSettles(s) /\ UNCHANGED <<service, calls, app, job, beyond>>
  \/ \E s \in Slots : Quiet /\ OpJson(s) /\ UNCHANGED <<service, calls, app, job, beyond>>

SpecApp == Init /\ [][NextApp]_vars

\* The page of a session without a disconnect: Connect, two presses of
\* signal buttons and Clear All, also while another handler is waiting
\* for the bridge.
NextSignals ==
  \/ \E ip \in ClinicHosts, key \in FieldKeys : HandleConnect("h1", ip, key)
  \/ \E c \in Calls : ConnectResumes(c)
  \/ \E c \in Calls : RoomsArrive(c)
  \/ \E roomId \in RoomIds(app.rooms), signalId \in Pressed :
       PressSignal(roomId, signalId, TwoPresses)
  \/ PressClearAll
  \/ \E s \in Jobs : JobResumes(s)
  \/ \E c \in Calls : Quiet /\ Tick(c) /\ UNCHANGED outside
  \/ \E c \in Calls : Quiet /\ ProbeSettles(c) /\ UNCHANGED outside
  \/ \E c \in Calls : Quiet /\ V2Settles(c) /\ UNCHANGED outside
  \/ \E c \in Calls : Quiet /\ V1Settles(c) /\ UNCHANGED outside
  \/ \E c \in Calls : Quiet /\ V1Json(c) /\ UNCHANGED outside
  \/ \E s \in Slots : Quiet /\ OpSettles(s) /\ UNCHANGED <<service, calls, app, job, beyond>>
  \/ \E s \in Slots : Quiet /\ OpJson(s) /\ UNCHANGED <<service, calls, app, job, beyond>>

SpecSignals == Init /\ [][NextSignals]_vars

\* The settings page: Connect, Retry and Disconnect pressed at any time,
\* also while a handleConnect is running, against the simulation server
\* and the bridge.
NextConnect ==
  \/ \E ip \in FieldHosts, key \in FieldKeys : HandleConnect(FreeCall, ip, key)
  \/ \E c \in Calls : ConnectResumes(c)
  \/ \E c \in Calls : RoomsArrive(c)
  \/ HandleDisconnect
  \/ \E c \in Calls : Quiet /\ Tick(c) /\ UNCHANGED outside
  \/ \E c \in Calls : Quiet /\ ProbeSettles(c) /\ UNCHANGED outside
  \/ \E c \in Calls : Quiet /\ V2Settles(c) /\ UNCHANGED outside
  \/ \E c \in Calls : Quiet /\ V1Settles(c) /\ UNCHANGED outside
  \/ \E c \in Calls : Quiet /\ V1Json(c) /\ UNCHANGED outside
  \/ \E c \in Calls : Quiet /\ OpSettles(c) /\ UNCHANGED <<service, calls, app, job, beyond>>
  \/ \E c \in Calls : Quiet /\ OpJson(c) /\ UNCHANGED <<service, calls, app, job, beyond>>

SpecConnect == Init /\ [][NextConnect]_vars

\* The service and its testConnection calls, nothing else running.
Next ==
  \/ \E ip \in RawHosts, key \in RawKeys : Configure(ip, key) /\ UNCHANGED outside
  \/ \E c \in Calls : TestConnection(c) /\ UNCHANGED outside
  \/ \E c \in Calls : Tick(c) /\ UNCHANGED outside
  \/ \E c \in Calls : ProbeSettles(c) /\ UNCHANGED outside
  \/ \E c \in Calls : V2Settles(c) /\ UNCHANGED outside
  \/ \E c \in Calls : V1Settles(c) /\ UNCHANGED outside
  \/ \E c \in Calls : V1Json(c) /\ UNCHANGED outside

Spec == Init /\ [][Next]_vars

\* The slots a direct caller of the service uses: one for its
\* testConnection calls, one for its light and room operations.
Caller == "h1"

OpSlot == "j1"

\* The service under a caller that configures, connects and operates the
\* lights in any order.
NextOps ==
  \/ \E ip \in RawHosts, key \in RawKeys : Configure(ip, key) /\ UNCHANGED outside
  \/ TestConnection(Caller) /\ UNCHANGED outside
  \/ Tick(Caller) /\ UNCHANGED outside
  \/ ProbeSettles(Caller) /\ UNCHANGED outside
  \/ V2Settles(Caller) /\ UNCHANGED outside
  \/ V1Settles(Caller) /\ UNCHANGED outside
  \/ V1Json(Caller) /\ UNCHANGED outside
  \/ \E name \in OpNames : \E id \in OpTargets(name) :
       Operation(OpSlot, name, id, ArgsOf(name, "room_ready"))
  \/ OpSettles(OpSlot) /\ UNCHANGED <<service, calls, app, job, beyond>>
  \/ OpJson(OpSlot) /\ UNCHANGED <<service, calls, app, job, beyond>>

SpecOps == Init /\ [][NextOps]_vars

\* The brightness percentages a caller hands to a colour command.
MaxPercent == 100

Percents == 0..MaxPercent

WireColors == {FindSignal("room_ready").color}

\* The addresses and the key the caller configures.
WireHosts == {<<"localhost", ":3100">>, <<"10.0.0.5">>}

WireKeys == {<<"x">>}

\* The arguments a caller hands to an operation after the id.
WireArgs(name) ==
  IF name \in ColorOps
    THEN {<<c, b>> : c \in WireColors, b \in Percents} \cup {<<c>> : c \in WireColors}
    ELSE {<<>>}

\* The lights and groups the caller commands.
WireTargets(name) ==
  IF name \in GroupOps THEN {"group-1", "group-2"} ELSE OpTargets(name)

\* The caller is between its calls: no testConnection and no operation of
\* it is waiting for the bridge.
Between == pc[Caller] \in {"idle", "done"} /\ ~InFlight(lop[OpSlot])

\* The service under a caller that does one thing at a time: it
\* configures, connects, and calls the operations with every brightness.
NextWire ==
  \/ \E ip \in WireHosts, key \in WireKeys :
       Between /\ Configure(ip, key) /\ UNCHANGED outside
  \/ Between /\ TestFrom(Caller, NoHist) /\ UNCHANGED outside
  \/ Tick(Caller) /\ UNCHANGED outside
  \/ ProbeSettles(Caller) /\ UNCHANGED outside
  \/ V2Settles(Caller) /\ UNCHANGED outside
  \/ V1Settles(Caller) /\ UNCHANGED outside
  \/ V1Json(Caller) /\ UNCHANGED outside
  \/ \E name \in OpNames : \E id \in WireTargets(name), args \in WireArgs(name) :
       Between /\ Operation(OpSlot, name, id, args)
  \/ OpSettles(OpSlot) /\ UNCHANGED <<service, calls, app, job, beyond>>
  \/ OpJson(OpSlot) /\ UNCHANGED <<service, calls, app, job, beyond>>

SpecWire == Init /\ [][NextWire]_vars

\* The brightnesses and the colour of the commands to the light that is
\* followed at the bridge.
BulbPercents == {0, 1, 25, 80, 100}

BulbArgs(name) ==
  IF name \in ColorOps
    THEN {<<FindSignal("room_ready").color, b>> : b \in BulbPercents}
    ELSE {<<>>}

\* The same caller commanding one light, and the bridge that keeps the
\* state of the light.
NextBulb ==
  \/ \E ip \in WireHosts, key \in WireKeys :
       Between /\ Configure(ip, key) /\ UNCHANGED outside
  \/ Between /\ TestFrom(Caller, NoHist) /\ UNCHANGED outside
  \/ Tick(Caller) /\ UNCHANGED outside
  \/ ProbeSettles(Caller) /\ UNCHANGED outside
  \/ V2Settles(Caller) /\ UNCHANGED outside
  \/ V1Settles(Caller) /\ UNCHANGED outside
  \/ V1Json(Caller) /\ UNCHANGED outside
  \/ \E name \in {"getLights", "setLightColor", "turnOff"} : \E args \in BulbArgs(name) :
       Between /\ Operation(OpSlot, name, Bulb, args)
  \/ OpSettles(OpSlot) /\ UNCHANGED <<service, calls, app, job, beyond>>
  \/ OpJsonAtBridge(OpSlot) /\ UNCHANGED <<service, calls, app, job, field, stored>>

SpecBulb == Init /\ [][NextBulb]_vars

\* ------------------------------------------------------------------------
\* The two inputs of the settings page and localStorage
\* ------------------------------------------------------------------------

\* Every text on the way to one of the texts of S, the empty text included.
Prefixes(S) == UNION {{SubSeq(t, 1, n) : n \in 0..Len(t)} : t \in S}

\* What the inputs hold while the user types, pastes and deletes.
TypedHosts == Prefixes(RawHosts)

TypedKeys == Prefixes(RawKeys)

\* if (value) localStorage.setItem(key, value): an empty text is not written.
SetItemIfTruthy(old, value) == IF value # <<>> THEN value ELSE old

\* onChange of the address input, setBridgeIp(e.target.value), and the
\* effect that runs because bridgeIp has changed.
SetBridgeIp(v) ==
  /\ v # field.ip
  /\ field' = [field EXCEPT !.ip = v]
  /\ stored' = [stored EXCEPT !.ip = SetItemIfTruthy(@, v)]
  /\ UNCHANGED <<service, calls, lop, app, job, bulb>>

\* The same for the key input: setApiKey(e.target.value) and its effect.
SetApiKey(v) ==
  /\ v # field.key
  /\ field' = [field EXCEPT !.key = v]
  /\ stored' = [stored EXCEPT !.key = SetItemIfTruthy(@, v)]
  /\ UNCHANGED <<service, calls, lop, app, job, bulb>>

\* The page is loaded again: App is mounted with the inputs read from
\* localStorage, and both effects run with those values.
Mount ==
  /\ field' = FieldInit(stored)
  /\ stored' = [ip |-> SetItemIfTruthy(stored.ip, FieldInit(stored).ip),
                key |-> SetItemIfTruthy(stored.key, FieldInit(stored).key)]
  /\ UNCHANGED <<service, calls, lop, app, job, bulb>>

NextFields ==
  \/ \E v \in TypedHosts : SetBridgeIp(v)
  \/ \E v \in TypedKeys : SetApiKey(v)
  \/ Mount

SpecFields == Init /\ [][NextFields]_vars

\* ------------------------------------------------------------------------
\* A long session of the demo page and its activity log
\* ------------------------------------------------------------------------

\* The ids sendSignal is called with: a room and two signals that exist,
\* and ids that do not.
LogRooms == {"room-1", "room-9"}

LogSignals == {"emergency", "clear", "party"}

\* const room = rooms.find(...); const signal = SIGNALS.find(...);
\* if (!room || !signal) return;
Unknown(roomId, signalId) == roomId \notin RoomIds(app.rooms) \/ signalId \notin SignalIds

\* The session: the alarm of the room is raised, any number of times, and
\* then cleared, any number of times.
InSession(signalId) ==
  IF signalId = "clear" THEN app.logs # <<>>
  ELSE IF app.logs = <<>> THEN TRUE
  ELSE Head(app.logs).signalLabel # FindSignal("clear").label

\* sendSignal(roomId, signalId) on the page that was never connected: it
\* runs to its end without an await.
SendSignal(roomId, signalId) ==
  /\ Quiet /\ ~Live
  /\ IF Unknown(roomId, signalId) THEN UNCHANGED vars
     ELSE /\ InSession(signalId)
          /\ Proceed(FreeJob,
                     Begin(NewJob("send", signalId, <<FindRoom(app.rooms, roomId)>>),
                           app.roomSignals, app.logs),
                     {}, FALSE)

NextLog == \E roomId \in LogRooms, signalId \in LogSignals : SendSignal(roomId, signalId)

SpecLog == Init /\ [][NextLog]_vars

\* ------------------------------------------------------------------------
\* Vocabulary of the properties
\* ------------------------------------------------------------------------

Done(c) == pc[c] = "done"

\* The call in slot c returns in this step.
Returns(c) == pc[c] # "done" /\ pc'[c] = "done"

Settled(e) == e.out # Pending

IsResponse(e) == e.out.kind = "response"

OkStatus(e) == IsResponse(e) /\ e.out.status \in 200..299

AuthStatus(e) == IsResponse(e) /\ e.out.status \in {401, 403}

\* The call has issued its probe, its v2 request, its v1 request.
Probed(c) == Len(hist[c]) >= 1

TriedV2(c) == Len(hist[c]) >= 2

TriedV1(c) == Len(hist[c]) >= 3

Unreachable(c) == "reason" \in DOMAIN reach[c]

\* ------------------------------------------------------------------------
\* Properties
\* ------------------------------------------------------------------------

\* C1: from every reachable state, a call to configure(host, token) leaves
\* connected = false and the negotiated version unset.
C1_ConfigureResets ==
  [][(\E ip \in RawHosts, key \in RawKeys : Configure(ip, key))
       => (connected' = FALSE /\ apiVersion' = NoVersion)]_vars

\* A call has succeeded (so the service was connected with a version), and
\* a configure after it has reset both.
C1_Witness ==
  \E c \in Calls :
    /\ Done(c) /\ result[c].success
    /\ bridgeIp # Null /\ ~connected /\ apiVersion = NoVersion

\* C2: when the v2 list-lights request is answered 401 or 403, the call
\* issues no v1 request, returns the invalid-credential failure, and
\* connected is false when it returns.
C2_NoFallbackAfterRejection ==
  /\ [](\A c \in Calls :
          TriedV2(c) /\ Settled(hist[c][2]) /\ AuthStatus(hist[c][2])
            => /\ Done(c)
               /\ ~TriedV1(c)
               /\ result[c] = [success |-> FALSE, error |-> <<"Invalid API key.">>])
  /\ [][\A c \in Calls :
          Returns(c) /\ TriedV2(c)' /\ AuthStatus(hist[c][2])'
            => connected' = FALSE]_vars

C2_Witness ==
  \E c \in Calls :
    /\ Done(c) /\ Len(hist[c]) = 2
    /\ hist[c][2].stage = "v2" /\ hist[c][2].out = Response(401)
    /\ ~connected

\* C3: in every call the probe completes before any list-lights request is
\* issued, and a call whose probe reports not reachable (network or
\* certificate) issues neither the v2 nor the v1 request.
C3_ProbeBeforeNegotiation ==
  \A c \in Calls :
    /\ \A i \in DOMAIN hist[c] :
         hist[c][i].stage \in {"v2", "v1"}
           => i > 1 /\ hist[c][1].stage = "probe" /\ Settled(hist[c][1])
    /\ Unreachable(c)
         => /\ Len(hist[c]) = 1
            /\ hist[c][1].stage = "probe"
            /\ req[c] = NoReq

C3_Witness ==
  \E c \in Calls :
    /\ Done(c)
    /\ reach[c] = [reachable |-> FALSE, reason |-> "network"]
    /\ Len(hist[c]) = 1

\* C4: when the probe reports not reachable for a certificate reason, the
\* call returns a failure flagged needsCert that carries the URL
\* https://<configured host>/api and an instruction text, and connected is
\* false when it returns.
C4_CertificateResult ==
  [][\A c \in Calls :
       Returns(c) /\ Unreachable(c)' /\ reach'[c].reason = "cert"
         => /\ result'[c].success = FALSE
            /\ result'[c].needsCert = TRUE
            /\ bridgeIp # Null
                 => result'[c].certUrl = <<"https", "://">> \o bridgeIp \o <<"/api">>
            /\ result'[c].certUrl[1] = "https"
            /\ result'[c].error = ErrCert /\ ErrCert # <<>>
            /\ connected' = FALSE]_vars

C4_Witness ==
  \E c \in Calls :
    /\ Done(c)
    /\ reach[c] = [reachable |-> FALSE, reason |-> "cert"]
    /\ result[c].needsCert
    /\ result[c].certUrl = <<"https", "://", "10.0.0.5", "/api">>

\* The host of a probed origin begins with "localhost".
IsLocalOrigin(o) == Len(o) >= 3 /\ o[3] = "localhost"

NetworkVerdict == [reachable |-> FALSE, reason |-> "network"]

CertVerdict == [reachable |-> FALSE, reason |-> "cert"]

\* C5: for every host at which nothing is listening (the connection is
\* refused at once, or the attempt is never answered), the probe returns
\* reachable = false with cause network, never with cause certificate.
C5_NoListenerIsNetwork ==
  \A c \in Calls :
    /\ Probed(c) /\ hist[c][1].origin[3] # "null"
    /\ hist[c][1].cond = "none" /\ Settled(hist[c][1])
    => reach[c] = NetworkVerdict

\* C6: the probe's verdict is decided by how its one request to /api
\* settles.  For a host that is not localhost the request is an HTTPS
\* request; a completed response of any status gives reachable, the abort
\* of the 5000 ms timer gives cause network, every other exception gives
\* cause certificate.  For a localhost host a completed response gives
\* reachable and every exception gives cause network.
C6_ProbeVerdict ==
  \A c \in Calls :
    /\ pc[c] \in {"probeLocal", "probeRemote"}
         => /\ Len(hist[c]) = 1
            /\ req[c].url[Len(req[c].url)] = "/api"
            /\ ~IsLocalOrigin(OriginOf(req[c].url)) => req[c].url[1] = "https"
            /\ req[c].elapsed <= 5000
    /\ Probed(c) /\ Settled(hist[c][1])
         => LET e == hist[c][1] IN
              IF IsResponse(e) THEN reach[c] = [reachable |-> TRUE]
              ELSE IF IsLocalOrigin(e.origin) THEN reach[c] = NetworkVerdict
              ELSE IF e.out = Throw("AbortError") THEN reach[c] = NetworkVerdict
              ELSE reach[c] = CertVerdict

\* A probe of a remote host has been ended by the timer.
C6_Witness ==
  \E c \in Calls :
    /\ Probed(c) /\ ~IsLocalOrigin(hist[c][1].origin)
    /\ hist[c][1].out = Throw("AbortError")
    /\ reach[c] = NetworkVerdict

\* C7: in a call whose probe succeeded, when the v2 attempt fails other than
\* by 401/403 (an exception or another non-success status) the v1 request
\* is issued next; if that request succeeds with a body that carries no
\* embedded error, the call returns success with version v1, and connected
\* is true and the negotiated version v1 when it returns.
C7_FallbackToLegacy ==
  /\ [](\A c \in Calls :
          /\ TriedV2(c) /\ Settled(hist[c][2])
               /\ ~OkStatus(hist[c][2]) /\ ~AuthStatus(hist[c][2])
               => TriedV1(c) /\ hist[c][3].stage = "v1"
          /\ TriedV1(c) /\ Settled(hist[c][3]) /\ OkStatus(hist[c][3])
               /\ hist[c][3].body \in {"obj", "arr", "data"}
               => Done(c) /\ result[c] = [success |-> TRUE, apiVersion |-> "v1"])
  /\ [][\A c \in Calls :
          Returns(c) /\ TriedV1(c)' /\ hist'[c][3].body \in {"obj", "arr", "data"}
            => connected' = TRUE /\ apiVersion' = "v1"]_vars

C7_Witness ==
  \E c \in Calls :
    /\ Done(c) /\ TriedV1(c)
    /\ hist[c][2].out = Throw("TypeError")
    /\ hist[c][3].out = Response(200) /\ hist[c][3].body = "arr"
    /\ result[c].success /\ connected /\ apiVersion = "v1"

\* C8: when the v1 answer has a success status but its body is an array
\* whose first element is an error, the call returns a credential failure,
\* connected is false when it returns, and the call records no version.
C8_EmbeddedErrorRejected ==
  /\ [](\A c \in Calls :
          TriedV1(c) /\ hist[c][3].body = "errArr"
            => /\ Done(c) /\ OkStatus(hist[c][3])
               /\ result[c].success = FALSE
               /\ "apiVersion" \notin DOMAIN result[c]
               /\ result[c].error[1] = "API key rejected: ")
  /\ [][\A c \in Calls :
          Returns(c) /\ TriedV1(c)' /\ hist'[c][3].body = "errArr"
            => connected' = FALSE /\ apiVersion' = apiVersion]_vars

C8_Witness ==
  \E c \in Calls :
    /\ Done(c) /\ TriedV1(c)
    /\ hist[c][3].out = Response(200) /\ hist[c][3].body = "errArr"
    /\ ~connected

\* The v1 attempt of the call has failed: a non-success status, an
\* exception, or a body that cannot be read.
V1Failed(h) ==
  /\ Len(h) >= 3
  /\ Settled(h[3])
  /\ \/ ~OkStatus(h[3])
     \/ h[3].body = "unreadable"

\* C9: when the v2 and the v1 attempt both fail, the call returns the
\* generic "API calls failed" failure, connected is false when it returns,
\* and the stored host and token are what they were.
C9_BothFail ==
  /\ [](\A c \in Calls :
          V1Failed(hist[c])
            => /\ Done(c)
               /\ ~OkStatus(hist[c][2])
               /\ result[c] =
                    [success |-> FALSE,
                     error |-> <<"Connected to bridge but API calls failed. Check your API key.">>])
  /\ [][\A c \in Calls :
          Returns(c) /\ V1Failed(hist'[c])
            => connected' = FALSE /\ bridgeIp' = bridgeIp /\ apiKey' = apiKey]_vars

C9_Witness ==
  \E c \in Calls :
    /\ Done(c) /\ TriedV1(c)
    /\ hist[c][2].out = Response(404)
    /\ hist[c][3].out = Response(200) /\ hist[c][3].body = "unreadable"
    /\ ~connected /\ bridgeIp # Null

\* C10: against the simulation server, configure("localhost:3100", token)
\* followed by testConnection probes http://localhost:3100/api, lists the
\* lights at http://localhost:3100/clip/v2/resource/light, and returns
\* success with version v2; connected is true when it returns.
C10_SimulationConnects ==
  /\ [][\A key \in RawKeys :
          Configure(<<"localhost", ":3100">>, key)
            => bridgeIp' = <<"localhost", ":3100">>]_vars
  /\ [][\A c \in Calls :
          bridgeIp = <<"localhost", ":3100">> /\ Len(hist'[c]) # Len(hist[c])
            => /\ hist'[c][Len(hist'[c])].origin = <<"http", "://", "localhost", ":3100">>
               /\ Len(hist'[c]) = 1
                    => req'[c].url = <<"http", "://", "localhost", ":3100", "/api">>
               /\ Len(hist'[c]) = 2
                    => req'[c].url = <<"http", "://", "localhost", ":3100",
                                       "/clip/v2", "/resource/light">>]_vars
  /\ [](\A c \in Calls :
          /\ Probed(c) /\ hist[c][1].cond = "sim" /\ Settled(hist[c][1])
               => TriedV2(c)
          /\ TriedV2(c) /\ hist[c][2].cond = "sim" /\ Settled(hist[c][2])
               => /\ Done(c) /\ ~TriedV1(c)
                  /\ result[c] = [success |-> TRUE, apiVersion |-> "v2"])
  /\ [][\A c \in Calls :
          Returns(c) /\ TriedV2(c)' /\ hist'[c][2].cond = "sim" /\ Len(hist'[c]) = 2
            => connected' = TRUE /\ apiVersion' = "v2"]_vars

C10_Witness ==
  \E c \in Calls :
    /\ Done(c) /\ Len(hist[c]) = 2
    /\ hist[c][1].cond = "sim" /\ hist[c][2].cond = "sim"
    /\ hist[c][1].origin = SimOrigin /\ hist[c][2].origin = SimOrigin
    /\ bridgeIp = <<"localhost", ":3100">>
    /\ result[c] = [success |-> TRUE, apiVersion |-> "v2"]
    /\ connected /\ apiVersion = "v2"

\* The request of an operation in flight goes to the API of version ver.
BuiltFor(o, ver) ==
  /\ o.via = ver
  /\ Head(PathOf(o.req.url)) = (IF ver = "v2" THEN "/clip/v2" ELSE "/api/")

\* The operation of slot s is called in this step.
Called(s) == lop'[s] # lop[s] /\ lop'[s].name # "none" /\ lop'[s].state = "fetch"

\* C11: after a successful testConnection, no step of a light or room
\* operation (getLights, getRooms, setLightColor, setGroupedLightColor,
\* turnOff, turnOffGroup, signalLight), whether the operation succeeds or
\* fails, changes the negotiated version, and every operation called while
\* connected builds its request for the version negotiated.
C11_VersionKept ==
  [][\A s \in Slots :
       lop'[s] # lop[s]
         => /\ apiVersion' = apiVersion
            /\ connected /\ Called(s) => BuiltFor(lop'[s], apiVersion)]_vars

\* After a successful negotiation of v2 a group command has failed, and
\* the version is still v2.
C11_Witness ==
  /\ connected /\ apiVersion = "v2"
  /\ lop[OpSlot].name = "turnOffGroup" /\ lop[OpSlot].state = "threw"
  /\ lop[OpSlot].via = "v2"

\* The handler of slot s is at an await of a live command.
Commanding(s) == job[s].kind # "idle" /\ job[s].live /\ lop[s].name # "none"

\* The command the handler of slot s awaited has failed, and the handler
\* goes on in this step.
Catches(s) == DueJob(s) /\ lop[s].state = "threw" /\ job'[s] # job[s]

\* C12: a live light or group command that fails leaves the service's
\* connected flag, version, host and token and the application's
\* connected and demoMode as they are, both when the operation throws to
\* sendSignal and when sendSignal handles it; handling it adds exactly one
\* entry to the activity log, a failed one for the room of the command.
C12_FailureKeepsConnection ==
  [][\A s \in Jobs :
       /\ Commanding(s) /\ lop'[s] # lop[s] /\ lop'[s].name # "none"
            /\ lop'[s].state = "threw"
            => service' = service /\ app' = app
       /\ Catches(s)
            => /\ service' = service
               /\ app'.connected = app.connected /\ app'.demoMode = app.demoMode
               /\ app'.logs =
                    <<[roomName |-> Head(job[s].todo).name,
                       signalLabel |-> FindSignal(job[s].signal).label,
                       success |-> FALSE]>> \o app.logs]_vars

\* Connected to the bridge, a group command for the ward has failed and
\* has been logged; service and application are still connected.
C12_Witness ==
  /\ connected /\ apiVersion = "v2"
  /\ app.connected /\ ~app.demoMode
  /\ app.logs = <<[roomName |-> "Ward", signalLabel |-> "Emergency", success |-> FALSE]>>

\* C13: a light or room operation sends its request only while the service
\* is connected, and then to the API of the negotiated version.
C13_OnlyWhileConnected ==
  [][\A s \in Slots :
       Called(s)
         => connected /\ apiVersion # NoVersion /\ BuiltFor(lop'[s], apiVersion)]_vars

\* handleDisconnect runs in this step: the page leaves the connected state.
Disconnects == app.connected /\ ~app'.connected

\* C14: an explicit disconnect leaves the service unconfigured: host and
\* token cleared, connected false, version unset.
C14_DisconnectUnconfigures ==
  [][Disconnects => /\ bridgeIp' = Null
                    /\ apiKey' = Null
                    /\ connected' = FALSE
                    /\ apiVersion' = NoVersion]_vars

\* The testConnection of slot c is between its first request and its return.
Testing(c) == pc[c] \in {"probeLocal", "probeRemote", "v2", "v1", "v1json"}

\* The testConnection of slot c issues its first request in this step.
StartsTest(c) == pc[c] = "idle" /\ Testing(c)'

\* C15: a testConnection issues its probe only when a host is stored, the
\* service is not connected and no other testConnection is running.
C15_TestOnlyFromConfigured ==
  [][\A c \in Calls : StartsTest(c)
       => /\ bridgeIp' # Null
          /\ ~connected'
          /\ \A d \in Calls \ {c} : ~Testing(d)]_vars

\* C16: connected becomes true and the version becomes set only in the step
\* in which a testConnection returns success, the version of its result
\* being the one stored; every successful return stores both.
C16_SetOnlyBySuccess ==
  [][/\ (connected' /\ ~connected) \/ (apiVersion' # apiVersion /\ apiVersion' # NoVersion)
          => \E c \in Calls : /\ Returns(c)
                              /\ result'[c] = SuccessResult(apiVersion')
                              /\ connected'
     /\ \A c \in Calls : Returns(c) /\ result'[c].success
          => connected' /\ apiVersion' = result'[c].apiVersion]_vars

C16_Witness ==
  /\ connected /\ apiVersion = "v1"
  /\ result[Caller] = SuccessResult("v1")
  /\ lop[OpSlot].name = "getRooms" /\ lop[OpSlot].state = "returned"

\* The commands Clear All owes the rooms of its render, in order: for a
\* room with a group id one turnOffGroup, for any other room one turnOff
\* for each light.
RECURSIVE ClearPlan(_)
ClearPlan(rooms) ==
  IF rooms = <<>> THEN <<>>
  ELSE LET room == Head(rooms) IN
         (IF Truthy(room.groupedLightId)
            THEN <<[name |-> "turnOffGroup", id |-> room.groupedLightId, room |-> room.id]>>
            ELSE [i \in DOMAIN room.lights |->
                    [name |-> "turnOff", id |-> room.lights[i], room |-> room.id]])
         \o ClearPlan(Tail(rooms))

Mismatch == <<[name |-> "mismatch"]>>

\* plan without the commands it starts with for the room roomId.
RECURSIVE SkipRoom(_, _)
SkipRoom(plan, roomId) ==
  IF plan # <<>> /\ Head(plan).room = roomId THEN SkipRoom(Tail(plan), roomId) ELSE plan

\* What is left of plan after the commands of trace, or Mismatch when
\* trace departs from plan; with stops, a failed command ends its room.
RECURSIVE Rest(_, _, _)
Rest(trace, plan, stops) ==
  IF trace = <<>> THEN plan
  ELSE IF plan = <<>> THEN Mismatch
  ELSE LET e == Head(trace)
           p == Head(plan)
       IN  IF e.name # p.name \/ e.id # p.id \/ e.room # p.room THEN Mismatch
           ELSE Rest(Tail(trace),
                     IF stops /\ e.out = "failed" THEN SkipRoom(Tail(plan), p.room)
                     ELSE Tail(plan),
                     stops)

\* The commands of a handler with the outcome o of the one it awaited.
Finished(trace, o) ==
  [trace EXCEPT ![Len(trace)].out = IF o.state = "threw" THEN "failed" ELSE "ok"]

ClearsLive(j) == j.kind = "clearAll" /\ j.live

\* One command at a time: only the last command of j may be pending, and
\* it is the operation in flight in slot s.
OneByOne(j, o) ==
  /\ \A i \in 1..(Len(j.trace) - 1) : j.trace[i].out # "pending"
  /\ j.trace # <<>> /\ j.trace[Len(j.trace)].out = "pending"
       => o.name = j.trace[Len(j.trace)].name /\ o.id = j.trace[Len(j.trace)].id

\* C17: a live Clear All issues, room by room in list order, one group
\* power-off for a room with a group id and one power-off for every light
\* of any other room, one command at a time, whatever fails, and ends only
\* when every room has had its commands.
C17_ClearAllEveryLight ==
  [][\A s \in Jobs :
       /\ ClearsLive(job'[s])
            => Rest(job'[s].trace, ClearPlan(job'[s].rooms), FALSE) # Mismatch
               /\ OneByOne(job'[s], lop'[s])
       /\ ClearsLive(job[s]) /\ job'[s].kind = "idle"
            => Rest(Finished(job[s].trace, lop[s]), ClearPlan(job[s].rooms), FALSE) = <<>>]_vars

\* The request r goes to the group endpoint of the group gid.
ToGroup(r, gid) ==
  /\ r.method = "PUT"
  /\ \E i \in 1..(Len(r.url) - 1) :
       r.url[i] \in {"/resource/grouped_light/", "/groups/"} /\ r.url[i + 1] = gid
  /\ \A i \in DOMAIN r.url : r.url[i] \notin {"/resource/light/", "/lights/"}

\* The commands the handler j has issued for the room it is at.
ForRoom(j) == {i \in DOMAIN j.trace : j.trace[i].room = Head(j.todo).id}

\* The live handler j is at a room that has a group id.
AtGrouped(j) == j.kind # "idle" /\ j.live /\ Truthy(Head(j.todo).groupedLightId)

\* C18: a live send to a room that has a group id, of any signal, in
\* sendSignal alone or inside clearAll, issues exactly one request, to the
\* group endpoint with the group id, and no per-light request.
C18_GroupEndpointOnly ==
  [][\A s \in Jobs :
       AtGrouped(job'[s]) =>
         LET j == job'[s]
             room == Head(j.todo)
         IN  /\ Cardinality(ForRoom(j)) = 1
             /\ \A i \in ForRoom(j) :
                  /\ i = Len(j.trace)
                  /\ j.trace[i].name =
                       (IF j.signal = "clear" THEN "turnOffGroup" ELSE "setGroupedLightColor")
                  /\ j.trace[i].id = room.groupedLightId
             /\ lop'[s].name = j.trace[Len(j.trace)].name
             /\ lop'[s].id = room.groupedLightId
             /\ InFlight(lop'[s]) => ToGroup(lop'[s].req, room.groupedLightId)]_vars

C18_Witness ==
  \E s \in Jobs :
    /\ job[s].kind = "send" /\ job[s].live /\ job[s].signal = "emergency"
    /\ Head(job[s].todo).groupedLightId = "g1"
    /\ lop[s].name = "setGroupedLightColor" /\ lop[s].state = "returned"
    /\ apiVersion = "v2"

\* The slots whose handler has a fetch to the bridge pending.
Fetching ==
  {c \in Calls : pc[c] \in {"probeLocal", "probeRemote", "v2", "v1"}}
    \cup {s \in Slots : lop[s].name # "none" /\ lop[s].state = "fetch"}

\* C19: at no time are two requests to the bridge in flight.
C19_OneRequestAtATime == Cardinality(Fetching) <= 1

MapChanges == app'.roomSignals # app.roomSignals

\* The live send of slot s completes in this step: the last command of
\* its room has returned, every command of the room has succeeded, every
\* light of a room without a group id has had one, and the map gets the
\* entry of the room.
SendSucceeds(s) ==
  /\ job[s].kind # "idle" /\ job[s].live /\ job'[s] # job[s]
  /\ lop[s].name # "none" /\ lop[s].state = "returned"
  /\ LET j == job[s]
         room == Head(j.todo)
     IN  /\ \A i \in ForRoom(j) : i < Len(j.trace) => j.trace[i].out = "ok"
         /\ Len(j.trace) \in ForRoom(j)
         /\ Cardinality(ForRoom(j)) =
              (IF Truthy(room.groupedLightId) THEN 1 ELSE Len(room.lights))
         /\ app'.roomSignals = Mark(app.roomSignals, room.id, j.signal)

\* A signal button is pressed in simulated mode: the map gets the entry
\* at once.
SimulatedSend ==
  /\ ~Live /\ app'.presses # app.presses
  /\ \E i \in DOMAIN app.rooms, signalId \in Pressed :
       app'.roomSignals = Mark(app.roomSignals, app.rooms[i].id, signalId)

\* Clear All is pressed in simulated mode: the entries of the rooms go at
\* once.
SimulatedClearAll ==
  /\ ~Live /\ app'.cleared /\ ~app.cleared
  /\ app'.roomSignals =
       [k \in DOMAIN app.roomSignals \ RoomIds(app.rooms) |-> app.roomSignals[k]]

\* C20 as stated: the map changes only by a signal send that completes,
\* after every live command of it has succeeded or, in simulated mode, at
\* once; a send whose command fails leaves it unchanged.
C20_OnlyCompletedSends ==
  [][/\ MapChanges => \/ \E s \in Jobs : SendSucceeds(s)
                      \/ SimulatedSend
                      \/ SimulatedClearAll
     /\ \A s \in Jobs : Catches(s) => ~MapChanges]_vars

\* C20: the map changes only by a signal send that completes, after every
\* live command of it has succeeded or, in simulated mode, at once, and by
\* a disconnect, which empties it; a send whose command fails leaves it
\* unchanged.
C20_SendsAndDisconnect ==
  [][/\ MapChanges => \/ \E s \in Jobs : SendSucceeds(s)
                      \/ SimulatedSend
                      \/ SimulatedClearAll
                      \/ Disconnects /\ app'.roomSignals = EmptyMap
     /\ \A s \in Jobs : Catches(s) => ~MapChanges]_vars

C20_Witness ==
  /\ app.roomSignals = EmptyMap
  /\ app.logs = <<[roomName |-> "Ward", signalLabel |-> "Emergency", success |-> TRUE]>>
  /\ ~app.cleared
  /\ ~app.connected /\ connected

\* ------------------------------------------------------------------------
\* Payloads of the commands (C21 - C24)

\* The operation of slot s has built its request and has not finished.
Built(s) == InFlight(lop[s])

\* The colour command of slot s was called with a brightness percentage.
Coloring(s) ==
  /\ Built(s) /\ lop[s].name \in ColorOps
  /\ Len(lop[s].args) = 2 /\ lop[s].args[2] \in Percents

\* n is the integer nearest to b * 254 / 100, the half rounded up.
Nearest(n, b) == 100 * n - 254 * b \in -49..50

\* C21: for every whole percentage b from 0 to 100 a legacy set-light or
\* set-group payload carries bri = the integer nearest to b / 100 * 254,
\* which lies in 0..254, and a modern payload carries brightness = b.
C21_BrightnessScale ==
  \A s \in {OpSlot} \cup Jobs :
    Coloring(s) =>
      IF lop[s].via = "v2"
        THEN /\ lop[s].body.dimming.brightness = lop[s].args[2]
             /\ "bri" \notin DOMAIN lop[s].body
        ELSE /\ lop[s].body.bri \in 0..254
             /\ Nearest(lop[s].body.bri, lop[s].args[2])
             /\ "dimming" \notin DOMAIN lop[s].body

\* A legacy payload for 25 percent: 63.5 is rounded up to 64.
C21_Witness ==
  /\ Coloring(OpSlot) /\ lop[OpSlot].via = "v1"
  /\ lop[OpSlot].args[2] = 25 /\ lop[OpSlot].body.bri = 64

\* The payload of the operation o switches the target off and says nothing
\* else.
PowerOff(o) ==
  /\ DOMAIN o.body = {"on"}
  /\ IF o.via = "v2" THEN o.body.on = [on |-> FALSE] ELSE o.body.on = FALSE

\* The live handler of slot s sends the clear signal and waits for the bridge.
Clearing(s) == Commanding(s) /\ job[s].signal = "clear" /\ Built(s)

\* C22: sending the clear signal always produces a power-off payload without
\* a colour and without a brightness field, under both versions, to a light
\* and to a group.
C22_ClearIsPowerOff ==
  \A s \in Jobs :
    Clearing(s) =>
      /\ lop[s].name \in OffOps
      /\ PowerOff(lop[s])
      /\ lop[s].req.method = "PUT"

\* Clear is on its way to a single light of a bridge that speaks the legacy
\* API.
C22_Witness ==
  \E s \in Jobs :
    /\ Clearing(s) /\ job[s].kind = "send"
    /\ lop[s].name = "turnOff" /\ lop[s].via = "v1"

\* setGroupedLightColor(g, {x, y}, b) is waiting for the bridge in slot s.
GroupColoring(s) == Coloring(s) /\ lop[s].name = "setGroupedLightColor"

\* The request and the body of setGroupedLightColor(g, {x, y}, b) in slot s,
\* with at80 the legacy bri of 80 percent.
GroupColorRequest(s, at80) ==
  LET o == lop[s]
      g == o.id
      c == o.args[1]
      b == o.args[2]
  IN /\ o.req.method = "PUT"
     /\ IF o.via = "v2"
          THEN /\ PathOf(o.req.url) = <<"/clip/v2", "/resource/grouped_light/", g>>
               /\ o.body = [on |-> [on |-> TRUE],
                            dimming |-> [brightness |-> b],
                            color |-> [xy |-> [x |-> c.x, y |-> c.y]]]
          ELSE /\ PathOf(o.req.url) =
                    <<"/api/">> \o Str(apiKey) \o <<"/groups/", g, "/action">>
               /\ DOMAIN o.body = {"on", "bri", "xy"}
               /\ o.body.on = TRUE
               /\ Nearest(o.body.bri, b)
               /\ (b = 80 => o.body.bri = at80)
               /\ o.body.xy = <<c.x, c.y>>

\* C23 as stated: setGroupedLightColor(g, {x, y}, b) sends, under the modern
\* version, PUT /clip/v2/resource/grouped_light/g with the body
\* {on: {on: true}, dimming: {brightness: b}, color: {xy: {x, y}}}, and under
\* the legacy version PUT /api/{token}/groups/g/action with the body
\* {on: true, bri: round(b * 2.54), xy: [x, y]}, where bri = 204 for b = 80.
C23_GroupColorRequest204 ==
  \A s \in {OpSlot} \cup Jobs : GroupColoring(s) => GroupColorRequest(s, 204)

\* C23: the same requests and bodies, where bri = 203 for b = 80, the
\* integer nearest to 203.2.
C23_GroupColorRequest ==
  \A s \in {OpSlot} \cup Jobs : GroupColoring(s) => GroupColorRequest(s, 203)

\* Room Ready (0.17 / 0.7 at 80 percent) on its way to group-2 of a legacy
\* bridge.
C23_Witness ==
  /\ GroupColoring(OpSlot) /\ lop[OpSlot].via = "v1" /\ apiVersion = "v1"
  /\ lop[OpSlot].id = "group-2"
  /\ lop[OpSlot].args = <<Xy("0.17", "0.7"), 80>>
  /\ lop[OpSlot].body = [on |-> TRUE, bri |-> 203, xy |-> <<"0.17", "0.7">>]

\* The requests in flight that were built for the version ver: the version
\* test of testConnection and the light and room operations.
RequestsFor(ver) ==
  {req[c] : c \in {d \in Calls : req[d].stage = ver}}
    \cup {lop[s].req : s \in {t \in Slots : Built(t) /\ lop[t].via = ver}}

\* The text k occurs in the path p.
Within(k, p) == \E i \in 1..(Len(p) - Len(k) + 1) : SubSeq(p, i, i + Len(k) - 1) = k

\* The request r goes to the host that is configured.
ToConfiguredHost(r) == OriginOf(r.url) = BridgeOrigin(bridgeIp)

\* C24: every request built for the modern version carries the token in the
\* hue-application-key header and not in its path; every request built for
\* the legacy version carries the token as the path segment after /api/ and
\* in no header; both go to the same configured host.
C24_TokenPlacement ==
  /\ \A r \in RequestsFor("v2") :
       /\ r.headers.appKey = Str(apiKey)
       /\ ~Within(Str(apiKey), PathOf(r.url))
       /\ Head(PathOf(r.url)) = "/clip/v2"
       /\ ToConfiguredHost(r)
  /\ \A r \in RequestsFor("v1") :
       /\ r.headers.appKey = Null
       /\ HasPrefix(PathOf(r.url), <<"/api/">> \o Str(apiKey))
       /\ ToConfiguredHost(r)

\* A modern command is waiting at the configured host with the token in
\* its header.
C24_Witness ==
  /\ apiKey = <<"x">> /\ bridgeIp = <<"10.0.0.5">>
  /\ Built(OpSlot) /\ lop[OpSlot].name = "turnOffGroup" /\ lop[OpSlot].via = "v2"
  /\ lop[OpSlot].req.headers.appKey = <<"x">>
  /\ lop[OpSlot].req.url =
       <<"https", "://", "10.0.0.5", "/clip/v2", "/resource/grouped_light/", "group-1">>

\* The legacy counterpart of the witness above.
C24_LegacyCase ==
  /\ apiKey = <<"x">> /\ bridgeIp = <<"10.0.0.5">>
  /\ Built(OpSlot) /\ lop[OpSlot].name = "turnOffGroup" /\ lop[OpSlot].via = "v1"
  /\ lop[OpSlot].req.headers.appKey = Null
  /\ lop[OpSlot].req.url =
       <<"https", "://", "10.0.0.5", "/api/", "x", "/groups/", "group-1", "/action">>

\* ------------------------------------------------------------------------
\* Listings (C25 - C27)

\* The sequence rooms holds one room for each group of type Room among the
\* entries of a keyed listing and no other: the key is its id and the id of
\* its grouped light, the member lights are its children.
RoomsOfGroups(entries, rooms) ==
  LET kept == {i \in DOMAIN entries : entries[i].type = "Room"} IN
    /\ Len(rooms) = Cardinality(kept)
    /\ \A i \in kept :
         \E k \in DOMAIN rooms :
           /\ rooms[k].id = entries[i].key
           /\ rooms[k].name = entries[i].name
           /\ Len(rooms[k].children) = Len(entries[i].lights)
           /\ \A n \in DOMAIN rooms[k].children :
                rooms[k].children[n] = [rtype |-> "device", rid |-> entries[i].lights[n]]
           /\ rooms[k].services = <<[rtype |-> "grouped_light", rid |-> entries[i].key]>>

\* getRooms of slot s returns in this step what it made of a legacy answer.
ListsLegacyRooms(s) ==
  /\ lop[s].name = "getRooms" /\ lop[s].state = "json" /\ lop[s].via = "v1"
  /\ lop'[s].state = "returned"

\* C25: under the legacy version getRooms turns the keyed groups mapping into
\* a sequence that holds exactly the groups of type Room, each with its key
\* as id, its member lights as children, and a group id equal to its own key.
C25_LegacyRooms ==
  [][\A s \in {OpSlot} :
       ListsLegacyRooms(s) =>
         \E body \in RoomsJson(lop[s].req) :
           /\ body.shape = "keyed"
           /\ RoomsOfGroups(body.entries, lop'[s].value)]_vars

\* The listing with the room Ward and the zone Upstairs has come back as
\* the one room.
C25_Witness ==
  /\ lop[OpSlot].name = "getRooms" /\ lop[OpSlot].state = "returned"
  /\ lop[OpSlot].via = "v1"
  /\ lop[OpSlot].value =
       <<[id |-> "1", name |-> "Ward",
          children |-> <<[rtype |-> "device", rid |-> "1"], [rtype |-> "device", rid |-> "2"]>>,
          services |-> <<[rtype |-> "grouped_light", rid |-> "1"]>>]>>

\* getLights of slot s returns in this step, under the version through
\* which the light was last set.
ListsBulb(s) ==
  /\ lop[s].name = "getLights" /\ lop[s].state = "json"
  /\ lop'[s].state = "returned"
  /\ bulb.via = lop[s].via

\* The percentage n is the brightness the light was last set to: the bridge
\* holds it as it is (modern) or as the nearest of 254 steps (legacy).
IsPercentSet(n) ==
  IF bulb.via = "v2" THEN n = bulb.brightness
  ELSE n \in Percents /\ Nearest(bulb.bri, n)

\* C26: after setLightColor(id, color, b) has succeeded with b in 0..100, a
\* following getLights reports the brightness b for that light, on the scale
\* 0..100, under the modern and under the legacy version.
C26_BrightnessReadBack ==
  [][\A s \in {OpSlot} :
       ListsBulb(s) =>
         \A i \in DOMAIN lop'[s].value :
           lop'[s].value[i].id = Bulb =>
             IsPercentSet(lop'[s].value[i].dimming.brightness)]_vars

\* The modern case: 80 percent set and 80 percent listed.
C26_ModernReadBack ==
  /\ lop[OpSlot].name = "getLights" /\ lop[OpSlot].state = "returned"
  /\ lop[OpSlot].via = "v2" /\ bulb.via = "v2" /\ bulb.brightness = 80
  /\ lop[OpSlot].value # <<>>
  /\ lop[OpSlot].value[1].dimming.brightness = 80

\* The body has the shape the operation o expects of a success: a listing
\* with its data field (modern) or keyed by id (legacy), a command answer
\* that is no embedded error.
ExpectedShape(o, body) ==
  IF o.name \in ListOps
    THEN body.shape = (IF o.via = "v2" THEN "data" ELSE "keyed")
    ELSE body # "errArr"

\* The operation of slot s returns a value to its caller in this step.
OpReturns(s) ==
  /\ lop[s].name # "none" /\ lop[s].state = "json"
  /\ lop'[s].state = "returned"

\* C27: each of getLights, getRooms, setLightColor, setGroupedLightColor,
\* turnOff, turnOffGroup and signalLight raises a failure when the bridge
\* answers with a non-success status or with a body of unexpected shape (no
\* data field, or a legacy embedded error), under both versions: it returns
\* a value only for a success status and a body of the expected shape.
C27_FailuresAreRaised ==
  [][\A s \in {OpSlot} :
       OpReturns(s) =>
         /\ ResOk(lop[s].status)
         /\ \A body \in Answers(lop[s]) :
              lop'[s] = Reads(lop[s], body) => ExpectedShape(lop[s], body)]_vars

\* The part of it the code has: no operation but signalLight returns a
\* value for a non-success status.
C27_StatusTested ==
  [][\A s \in {OpSlot} :
       OpReturns(s) /\ lop[s].name # "signalLight" => ResOk(lop[s].status)]_vars

\* ------------------------------------------------------------------------
\* The saved credentials (C28)

\* C28: after any sequence of edits to the address and key inputs, the value
\* stored under each of the two fixed keys equals the current value of its
\* input, so that a restart reads back the last value entered, also when an
\* input was changed to empty.
C28_StoredFollowsFields == FieldInit(stored) = field

\* The part of it the code has: what is stored under a key is the last
\* text of its input that was not empty.
C28_StoredIsLastNonEmpty ==
  /\ field.ip # <<>> => stored.ip = field.ip
  /\ field.key # <<>> => stored.key = field.key

\* ------------------------------------------------------------------------
\* Demo mode (C29)

\* A signal button, or Clear All, is pressed while the page is in demo mode.
DemoPress == app.demoMode /\ app'.presses # app.presses

DemoClearAll == app.demoMode /\ app'.cleared /\ ~app.cleared

\* The step sends nothing to the bridge and leaves no handler waiting.
NoRequest ==
  /\ \A s \in Slots : InFlight(lop'[s]) => lop'[s] = lop[s]
  /\ job' = job

\* The n newest entries of the log are new in this step and successful.
LoggedOk(n) ==
  /\ Len(app'.logs) = Len(app.logs) + n
  /\ \A i \in 1..n : app'.logs[i].success

\* C29: in demo mode sending any signal and Clear All issue no request to
\* the bridge, always succeed, update the active-signal map at once, and
\* add a successful log entry.
C29_DemoModeIsLocal ==
  [][/\ DemoPress =>
          /\ NoRequest
          /\ \E i \in DOMAIN app.rooms, signalId \in Pressed :
               /\ app'.roomSignals = Mark(app.roomSignals, app.rooms[i].id, signalId)
               /\ LoggedOk(1)
               /\ Head(app'.logs) = [roomName |-> app.rooms[i].name,
                                     signalLabel |-> FindSignal(signalId).label,
                                     success |-> TRUE]
     /\ DemoClearAll =>
          /\ NoRequest
          /\ \A i \in DOMAIN app.rooms : app.rooms[i].id \notin DOMAIN app'.roomSignals
          /\ LoggedOk(Len(app.rooms))
          /\ \A i \in 1..Len(app.rooms) : app'.logs[i].signalLabel = "Clear / Off"]_vars

\* A page that was never connected: a signal was shown and Clear All has
\* taken it away, with one log entry for the signal and one for each room.
C29_Witness ==
  /\ app.demoMode /\ bridgeIp = Null
  /\ app.presses # {} /\ app.cleared
  /\ DOMAIN app.roomSignals = {}
  /\ Len(app.logs) = 1 + Len(app.rooms)
  /\ \A i \in DOMAIN app.logs : app.logs[i].success
  /\ \A s \in Jobs : job[s] = NoJob /\ lop[s] = NoOp

\* ------------------------------------------------------------------------
\* The result of testConnection (C30)

\* The call of slot c is waiting for the network.
Waiting(c) == pc[c] \in {"probeLocal", "probeRemote", "v2", "v1", "v1json"}

\* The result r is a failure that carries its error text.
FailureWithText(r) ==
  /\ "error" \in DOMAIN r
  /\ r.error # <<>>
  /\ \A i \in DOMAIN r.error : r.error[i] # ""

\* C30: testConnection never throws: whatever the network does, a call that
\* was waiting goes on to its next request or resolves with a result; it
\* resolves with success true exactly when that call has set connected to
\* true, and every failure result carries an error text.
C30_AlwaysResolves ==
  /\ [][\A c \in Calls :
          Waiting(c) /\ pc'[c] # pc[c]
            => \/ Waiting(c)' /\ req'[c] # NoReq
               \/ Returns(c) /\ result'[c] # NoResult]_vars
  /\ [][\A c \in Calls :
          Returns(c)
            => /\ result'[c].success \in BOOLEAN
               /\ result'[c].success <=> connected'
               /\ ~result'[c].success => FailureWithText(result'[c])]_vars

\* One call has succeeded and a later one, answered with an embedded
\* error, has resolved with its failure and left the service unconnected.
C30_Witness ==
  \E c, d \in Calls :
    /\ c # d
    /\ Done(c) /\ result[c].success
    /\ Done(d) /\ result[d] = [success |-> FALSE,
                               error |-> <<"API key rejected: ", "unauthorized user">>]
    /\ ~connected

\* ------------------------------------------------------------------------
\* The connection state of the service (C31, C32)

\* C31: in every reachable state of the service, connected = true implies
\* that the negotiated version is v1 or v2, never unset, whatever the order
\* and overlap of configure, testConnection and the light operations.
C31_ConnectedHasVersion == connected => apiVersion \in {"v1", "v2"}

\* The service is connected on the modern version and a command sent
\* through it is waiting for the bridge.
C31_Witness ==
  /\ connected /\ apiVersion = "v2" /\ result[Caller] = SuccessResult("v2")
  /\ lop[OpSlot].name = "turnOff" /\ lop[OpSlot].state = "fetch"
  /\ lop[OpSlot].via = "v2"

\* C32: in every reachable state of the service, connected = false implies
\* that the negotiated version is unset; a testConnection that fails after
\* an earlier successful one, with no configure in between, leaves no stale
\* version for the light operations to dispatch through.
C32_UnconnectedHasNoVersion == ~connected => apiVersion = NoVersion

\* ------------------------------------------------------------------------
\* The page and the service (C33 - C36)

\* The page shows the connection: connected and not in demo mode, with no
\* continuation of a handler still to run before the next render.
ShowsConnected == app.connected /\ ~app.demoMode /\ Quiet

\* C33: whenever the application shows connected (connected = true,
\* demoMode = false), the connected flag of the service is true and its
\* negotiated version is the version shown, under every interleaving of
\* overlapping Connect and Retry handlers and the replies of the network.
C33_ShownConnectionIsReal ==
  ShowsConnected => connected /\ apiVersion = app.apiVersion

\* C34: whenever the application is in demo mode after a disconnect, the
\* room list is the demo room list and the active-signal map holds no entry
\* produced by a live command, even when a room fetch or a signal send that
\* started before the disconnect completes after it: in demo mode the rooms
\* are the demo rooms, and no live send writes the map.
C34_DemoModeIsClean ==
  /\ [](app.demoMode => app.rooms = DEMO_ROOMS)
  /\ [][app.demoMode => \A s \in Jobs : ~(SendSucceeds(s) /\ MapChanges)]_vars

\* Its two halves.
C34_DemoRooms == app.demoMode => app.rooms = DEMO_ROOMS

C34_NoLiveEntry ==
  [][app.demoMode => \A s \in Jobs : ~(SendSucceeds(s) /\ MapChanges)]_vars

\* The user has disconnected (or never connected) and no testConnection has
\* succeeded since: the page is not connected and no successful result is
\* waiting for its handler.
Disconnected ==
  /\ ~app.connected
  /\ \A c \in Calls : ~(pc[c] = "done" /\ result[c].success)

\* A handler of a signal sends a command to the bridge in this step.
SendsCommand(s) ==
  /\ lop'[s] # lop[s]
  /\ lop'[s].name \in LightOps \cup GroupOps /\ lop'[s].state = "fetch"

\* C35: once the user has disconnected, no further command is sent to the
\* bridge until a later testConnection succeeds, not even by a Clear All or
\* a signal send that was running when the disconnect happened.
C35_NoCommandAfterDisconnect ==
  [][\A s \in Jobs : SendsCommand(s) => ~Disconnected]_vars

\* The page is in live mode.
LiveMode == app.connected /\ ~app.demoMode

\* C36: in live mode every entry of the active-signal map was written by a
\* live command for that room and signal that succeeded since the connection
\* was established: the map is empty when the page enters live mode, so
\* that no entry made in demo mode survives a successful connect, and in
\* live mode only a live send that succeeds writes it.
C36_LiveMapIsLive ==
  [][/\ ~LiveMode /\ LiveMode' => DOMAIN app'.roomSignals = {}
     /\ LiveMode /\ LiveMode' /\ MapChanges
          => \E s \in Jobs : SendSucceeds(s)]_vars

\* The half of it the code has: in live mode only a live send that succeeds
\* writes the map.
C36_LiveWrites ==
  [][LiveMode /\ LiveMode' /\ MapChanges => \E s \in Jobs : SendSucceeds(s)]_vars

\* ------------------------------------------------------------------------
\* A send to a room without a group id (C37)

\* The live handler j is at a room that has no group id.
AtUngrouped(j) == j.kind # "idle" /\ j.live /\ ~Truthy(Head(j.todo).groupedLightId)

\* The commands the handler j has issued for the room it is at are for the
\* first lights of the room, in list order, one for each, all but the last
\* answered with success.
InListOrder(j) ==
  LET room == Head(j.todo)
      mine == ForRoom(j)
      from == Len(j.trace) - Cardinality(mine)
  IN  /\ Cardinality(mine) <= Len(room.lights)
      /\ mine = (from + 1)..Len(j.trace)
      /\ \A i \in mine :
           /\ j.trace[i].id = room.lights[i - from]
           /\ j.trace[i].name = LightOpOf(j.signal)
           /\ i < Len(j.trace) => j.trace[i].out = "ok"

\* The entry of the room in the map sig, or nothing.
EntryOf(sig, roomId) == IF roomId \in DOMAIN sig THEN <<sig[roomId]>> ELSE <<>>

\* C37: for a room without a group id a live signal send commands the member
\* lights one at a time in list order and stops at the first light whose
\* command fails: no later light of the room gets a command, the entry of
\* the room in the active-signal map is unchanged, exactly one failed log
\* entry is added, and the lights commanded before get no further command.
C37_StopsAtFirstFailure ==
  /\ [](\A s \in Jobs : AtUngrouped(job[s]) => InListOrder(job[s]))
  /\ [][\A s \in Jobs :
          AtUngrouped(job[s]) /\ Catches(s)
            => LET room == Head(job[s].todo) IN
                 /\ EntryOf(app'.roomSignals, room.id) = EntryOf(app.roomSignals, room.id)
                 /\ app'.logs =
                      <<[roomName |-> room.name,
                         signalLabel |-> FindSignal(job[s].signal).label,
                         success |-> FALSE]>> \o app.logs
                 /\ job[s].kind = "send" => job'[s] = NoJob /\ lop'[s] = NoOp
                 /\ job'[s] # NoJob => Head(job'[s].todo).id # room.id]_vars

\* The second light of the lab has refused Emergency after the first has
\* taken it: the handler is about to stop.
C37_Witness ==
  \E s \in Jobs :
    /\ AtUngrouped(job[s]) /\ job[s].kind = "send" /\ job[s].signal = "emergency"
    /\ lop[s].name = "setLightColor" /\ lop[s].id = "l3" /\ lop[s].state = "threw"
    /\ Len(job[s].trace) = 2
    /\ job[s].trace[1].id = "l2" /\ job[s].trace[1].out = "ok"

\* ------------------------------------------------------------------------
\* The activity log (C38)

\* The log lg with the entry e added: e first, then the newest of lg, 50 in
\* all at most.
Newest50(e, lg) == <<e>> \o SubSeq(lg, 1, IF Len(lg) < 49 THEN Len(lg) ELSE 49)

\* C38: after any sequence of signal sends the activity log holds at most 50
\* entries, newest first, and equals the 50 most recent sends: every send
\* puts its entry in front of the 49 newest older ones; a send for an
\* unknown room id or an unknown signal id adds no entry, sends no command
\* and changes no state.
C38_LogKeepsNewest50 ==
  /\ [](Len(app.logs) <= 50)
  /\ [][\A roomId \in LogRooms, signalId \in LogSignals :
          SendSignal(roomId, signalId)
            => IF roomId = "room-1" /\ signalId \in {"emergency", "clear"}
                 THEN app'.logs =
                        Newest50([roomName |-> "Room 1 - Consultation",
                                  signalLabel |-> IF signalId = "clear"
                                                    THEN "Clear / Off" ELSE "Emergency",
                                  success |-> TRUE],
                                 app.logs)
                 ELSE UNCHANGED vars]_vars

\* At least 51 sends: the log is full and the entry of the first send, an
\* Emergency, has been dropped from its end.
C38_Witness ==
  /\ Len(app.logs) = 50
  /\ \A i \in 1..50 : app.logs[i].signalLabel = "Clear / Off"
  /\ DOMAIN app.roomSignals = {}

====
